---- MODULE Spec2Model ----
(***************************************************************************)
(* Model of the MCP client (src/mcp_client.py) and of the initialization   *)
(* and the run loop of the Azure AI agent (src/azure_ai_agent.py).         *)
(*                                                                         *)
(* Python values that travel as JSON are records tagged by "t":            *)
(*   None/null, bool, number, str, list, dict.                             *)
(* Text that is parsed or produced (raw tool arguments, SSE data lines,    *)
(* tool outputs) is a sequence of tokens, so that json.dumps, str() and    *)
(* json.loads are three different computations.                            *)
(***************************************************************************)
EXTENDS Integers, Sequences, FiniteSets, TLC

\* ------------------------------------------------------------------ bounds
\* Status fetches one run_agent execution may make in the loop scenario.
MaxPolls == 3
\* Longest requires_action batch; the pending calls have ids 1..MaxBatch.
MaxBatch == 3
\* Distinct pending calls the loop scenario draws its batches from.
LoopCalls == 2
\* get_available_tools calls made on one client in the discovery scenario.
MaxCalls == 3
\* Requests and tool calls made on one client in the request scenarios.
MaxRequests == 2
\* Longest tools/list listing the agent is initialized with.
MaxTools == 3
\* get_available_tools calls that may overlap on one client.
MaxCallers == 3
\* run_agent calls made on one agent after the first.
MaxRuns == 1

\* ------------------------------------------------------------ Python values
JNull == [t |-> "null"]
JBool(b) == [t |-> "bool", b |-> b]
JNum(s) == [t |-> "num", s |-> s]
JStr(s) == [t |-> "str", s |-> s]
JList(items) == [t |-> "list", items |-> items]
JDict(keys, vals) == [t |-> "dict", keys |-> keys, vals |-> vals]

IsDict(v) == v.t = "dict"
IsList(v) == v.t = "list"

\* d[k] of a dict that has the key k.
DictItem(d, k) ==
    LET i == CHOOSE j \in 1..Len(d.keys) : d.keys[j] = k IN d.vals[i]

HasKey(d, k) == \E j \in 1..Len(d.keys) : d.keys[j] = k

\* d.get(k, default)
DictGet(d, k, default) == IF HasKey(d, k) THEN DictItem(d, k) ELSE default

\* k in s for two str: the strings of this model contain one another only
\* when equal, except the pair listed.
Substring(k, s) == k = s \/ (k = "tools" /\ s = "mytools")

\* The expression  k in v  for a str k: "true", "false" or "TypeError".
PyIn(k, v) ==
    CASE v.t = "dict" -> IF HasKey(v, k) THEN "true" ELSE "false"
      [] v.t = "list" -> IF \E j \in 1..Len(v.items) : v.items[j] = JStr(k)
                         THEN "true" ELSE "false"
      [] v.t = "str"  -> IF Substring(k, v.s) THEN "true" ELSE "false"
      [] OTHER        -> "TypeError"

\* ------------------------------------------------------------------ tokens
Punct(s) == [k |-> "punct", s |-> s]
DQ(s) == [k |-> "dq", s |-> s]      \* "s" : a JSON string literal
SQ(s) == [k |-> "sq", s |-> s]      \* 's' : a Python repr of a str
Word(s) == [k |-> "word", s |-> s]  \* bare text
Num(s) == [k |-> "num", s |-> s]

RECURSIVE Join(_)
\* The texts of parts, separated by commas.
Join(parts) ==
    IF parts = <<>> THEN <<>>
    ELSE IF Len(parts) = 1 THEN parts[1]
    ELSE parts[1] \o <<Punct(",")>> \o Join(Tail(parts))

RECURSIVE JsonDumps(_)
\* json.dumps(v)
JsonDumps(v) ==
    CASE v.t = "null" -> <<Word("null")>>
      [] v.t = "bool" -> <<Word(IF v.b THEN "true" ELSE "false")>>
      [] v.t = "num"  -> <<Num(v.s)>>
      [] v.t = "str"  -> <<DQ(v.s)>>
      [] v.t = "list" ->
           <<Punct("[")>>
           \o Join([j \in 1..Len(v.items) |-> JsonDumps(v.items[j])])
           \o <<Punct("]")>>
      [] v.t = "dict" ->
           <<Punct("{")>>
           \o Join([j \in 1..Len(v.keys) |->
                      <<DQ(v.keys[j]), Punct(":")>> \o JsonDumps(v.vals[j])])
           \o <<Punct("}")>>

RECURSIVE PyRepr(_)
\* repr(v)
PyRepr(v) ==
    CASE v.t = "null" -> <<Word("None")>>
      [] v.t = "bool" -> <<Word(IF v.b THEN "True" ELSE "False")>>
      [] v.t = "num"  -> <<Num(v.s)>>
      [] v.t = "str"  -> <<SQ(v.s)>>
      [] v.t = "list" ->
           <<Punct("[")>>
           \o Join([j \in 1..Len(v.items) |-> PyRepr(v.items[j])])
           \o <<Punct("]")>>
      [] v.t = "dict" ->
           <<Punct("{")>>
           \o Join([j \in 1..Len(v.keys) |->
                      <<SQ(v.keys[j]), Punct(":")>> \o PyRepr(v.vals[j])])
           \o <<Punct("}")>>

\* str(v): the content of a str, the repr of anything else.
PyStr(v) == IF v.t = "str" THEN <<Word(v.s)>> ELSE PyRepr(v)

\* ------------------------------------------------------------- json.loads
ParseFail == [ok |-> FALSE, v |-> JNull, next |-> 0]
ParseOk(v, next) == [ok |-> TRUE, v |-> v, next |-> next]

IsTok(toks, i, tok) == i <= Len(toks) /\ toks[i] = tok

RECURSIVE ParseValue(_, _)
RECURSIVE ParseElements(_, _, _)
RECURSIVE ParseMembers(_, _, _, _)

\* One JSON value starting at token i.
ParseValue(toks, i) ==
    IF i > Len(toks) THEN ParseFail
    ELSE LET tok == toks[i] IN
      CASE tok.k = "word" ->
             IF tok.s = "null" THEN ParseOk(JNull, i + 1)
             ELSE IF tok.s = "true" THEN ParseOk(JBool(TRUE), i + 1)
             ELSE IF tok.s = "false" THEN ParseOk(JBool(FALSE), i + 1)
             ELSE ParseFail
        [] tok.k = "num" -> ParseOk(JNum(tok.s), i + 1)
        [] tok.k = "dq"  -> ParseOk(JStr(tok.s), i + 1)
        [] tok.k = "punct" ->
             IF tok.s = "[" THEN
               IF IsTok(toks, i + 1, Punct("]")) THEN ParseOk(JList(<<>>), i + 2)
               ELSE ParseElements(toks, i + 1, <<>>)
             ELSE IF tok.s = "{" THEN
               IF IsTok(toks, i + 1, Punct("}")) THEN ParseOk(JDict(<<>>, <<>>), i + 2)
               ELSE ParseMembers(toks, i + 1, <<>>, <<>>)
             ELSE ParseFail
        [] OTHER -> ParseFail

\* The elements of an array, the first starting at token i.
ParseElements(toks, i, items) ==
    LET r == ParseValue(toks, i) IN
    IF ~r.ok THEN ParseFail
    ELSE IF IsTok(toks, r.next, Punct("]"))
      THEN ParseOk(JList(Append(items, r.v)), r.next + 1)
    ELSE IF IsTok(toks, r.next, Punct(","))
      THEN ParseElements(toks, r.next + 1, Append(items, r.v))
    ELSE ParseFail

\* The members of an object, the first starting at token i.
ParseMembers(toks, i, keys, vals) ==
    IF ~(i + 1 <= Len(toks) /\ toks[i].k = "dq" /\ toks[i + 1] = Punct(":"))
    THEN ParseFail
    ELSE LET r == ParseValue(toks, i + 2) IN
      IF ~r.ok THEN ParseFail
      ELSE IF IsTok(toks, r.next, Punct("}"))
        THEN ParseOk(JDict(Append(keys, toks[i].s), Append(vals, r.v)), r.next + 1)
      ELSE IF IsTok(toks, r.next, Punct(","))
        THEN ParseMembers(toks, r.next + 1, Append(keys, toks[i].s), Append(vals, r.v))
      ELSE ParseFail

\* json.loads(text): ok and the value, or not ok (json.JSONDecodeError).
JsonLoads(toks) ==
    LET r == ParseValue(toks, 1) IN
    IF r.ok /\ r.next = Len(toks) + 1 THEN [ok |-> TRUE, v |-> r.v]
    ELSE [ok |-> FALSE, v |-> JNull]


\* ------------------------------------------------------------ text as str
Render(tok) ==
    CASE tok.k = "dq" -> "\"" \o tok.s \o "\""
      [] tok.k = "sq" -> "'" \o tok.s \o "'"
      [] OTHER        -> tok.s

RECURSIVE RenderText(_)
\* The characters of a text, for use inside an f-string.
RenderText(toks) ==
    IF toks = <<>> THEN "" ELSE Render(Head(toks)) \o RenderText(Tail(toks))

\* ----------------------------------------------------- outcomes of a call
Returned(v) == [ok |-> TRUE, v |-> v, msg |-> ""]
Raised(msg) == [ok |-> FALSE, v |-> JNull, msg |-> msg]

\* ------------------------------------------------------ HTTP responses
\* What client.post gives: an exception, or a status and a body of lines;
\* a line is its prefix ("data: ", "event: ", ...) and the text after it.
TransportFailure(msg) == [kind |-> "exception", msg |-> msg, status |-> 0, body |-> <<>>]
HttpResponse(status, body) == [kind |-> "http", msg |-> "", status |-> status, body |-> body]
SseLine(prefix, text) == [prefix |-> prefix, text |-> text]

\* The slip: only 4xx and 5xx are raised, informational and redirect
\* statuses pass.
IsBelow400(status) == status < 400

\* response.raise_for_status() passes.
IsSuccess(status) == 200 <= status /\ status < 300

\* str.strip of the start of a line: the prefixes of this model that begin
\* with whitespace, without it.
LStrip(prefix) == IF prefix = "  data: " THEN "data: " ELSE prefix

\* str.strip of a line that ends with its prefix: the trailing space goes.
RStrip(prefix) ==
    CASE prefix = "data: "  -> "data:"
      [] prefix = "event: " -> "event:"
      [] OTHER              -> prefix

\* line.strip(): the text after the prefix has no whitespace of its own, so
\* an indented line loses its indentation and a line with no text after the
\* prefix loses the space its prefix ends with.
StripLine(line) ==
    LET p == LStrip(line.prefix) IN
    SseLine(IF line.text = <<>> THEN RStrip(p) ELSE p, line.text)

\* The messages of the two framing failures.
NoDataFound == "No data found in SSE response"
InvalidJson == "Invalid JSON in SSE response"

RECURSIVE ParseSseSkippingBad(_)
\* The slip: a data line that is no JSON is passed over instead of raised.
ParseSseSkippingBad(lines) ==
    IF lines = <<>> THEN Raised(NoDataFound)
    ELSE IF StripLine(Head(lines)).prefix = "data: "
            /\ JsonLoads(Head(lines).text).ok
      THEN Returned(JsonLoads(Head(lines).text).v)
    ELSE ParseSseSkippingBad(Tail(lines))

RECURSIVE _parse_sse_response(_)
\* MCPClient._parse_sse_response: the JSON of the first stripped line that
\* starts with "data: ".
_parse_sse_response(lines) ==
    IF lines = <<>> THEN Raised(NoDataFound)
    ELSE IF StripLine(Head(lines)).prefix = "data: " THEN
      LET r == JsonLoads(Head(lines).text) IN
      IF r.ok THEN Returned(r.v)
      ELSE Raised(InvalidJson)
    ELSE _parse_sse_response(Tail(lines))

\* The slip: parsed.get("result") or parsed, a null result gives the envelope.
ExtractResultOrEnvelope(parsed) ==
    IF IsDict(parsed) /\ HasKey(parsed, "error")
    THEN Raised("MCP server error: " \o RenderText(PyStr(DictItem(parsed, "error"))))
    ELSE IF IsDict(parsed) /\ HasKey(parsed, "result")
            /\ DictItem(parsed, "result") # JNull
      THEN Returned(DictItem(parsed, "result"))
    ELSE IF IsDict(parsed) THEN Returned(parsed)
    ELSE Raised("TypeError")

\* The slip: a result beside the error is returned.
ExtractResultFirst(parsed) ==
    IF IsDict(parsed) /\ HasKey(parsed, "result")
    THEN Returned(DictItem(parsed, "result"))
    ELSE IF IsDict(parsed) /\ HasKey(parsed, "error")
      THEN Raised("MCP server error: " \o RenderText(PyStr(DictItem(parsed, "error"))))
    ELSE IF IsDict(parsed) THEN Returned(parsed)
    ELSE Raised("TypeError")

\* The part of _send_mcp_request after a parsed response: the JSON-RPC
\* error check and  parsed_response.get("result", parsed_response).
ExtractResult(parsed) ==
    LET has_error == PyIn("error", parsed) IN
    IF has_error = "TypeError" THEN Raised("TypeError: argument is not iterable")
    ELSE IF has_error = "true" THEN
      IF IsDict(parsed)
      THEN Raised("MCP server error: " \o RenderText(PyStr(DictItem(parsed, "error"))))
      ELSE Raised("TypeError: indices must be integers")
    ELSE IF IsDict(parsed) THEN Returned(DictGet(parsed, "result", parsed))
    ELSE Raised("AttributeError: object has no attribute 'get'")

\* MCPClient._send_mcp_request, given what the POST produced.
_send_mcp_request(response) ==
    IF response.kind = "exception" THEN Raised(response.msg)
    ELSE IF ~IsSuccess(response.status)
      THEN Raised("MCP server HTTP error: " \o ToString(response.status))
    ELSE LET parsed == _parse_sse_response(response.body) IN
      IF ~parsed.ok THEN parsed ELSE ExtractResult(parsed.v)

\* The slip: a failed request is logged and None returned.
CallToolSwallowing(response) ==
    IF _send_mcp_request(response).ok THEN _send_mcp_request(response)
    ELSE Returned(JNull)

\* MCPClient.call_tool: one tools/call request, its failure re-raised.
call_tool(response) == _send_mcp_request(response)

\* len(v) succeeds.
HasLen(v) == v.t \in {"list", "dict", "str"}

\* The cache assignment of get_available_tools for a request result:
\* assigned (and to what), or an exception before any assignment.
ExtractTools(result) ==
    LET has_tools == PyIn("tools", result) IN
    IF has_tools = "TypeError" THEN Raised("TypeError: argument is not iterable")
    ELSE IF has_tools = "true" THEN
      IF IsDict(result) THEN Returned(DictItem(result, "tools"))
      ELSE Raised("TypeError: indices must be integers")
    ELSE IF IsList(result) THEN Returned(result)
    ELSE Returned(JList(<<>>))

\* The slip: the cache is never consulted, each call asks the server.
GetToolsNoCache(cache, response) ==
    LET sent == _send_mcp_request(response) IN
    IF ~sent.ok THEN [cache |-> cache, ret |-> JList(<<>>), requests |-> 1]
    ELSE LET tools == ExtractTools(sent.v) IN
      IF ~tools.ok THEN [cache |-> cache, ret |-> JList(<<>>), requests |-> 1]
      ELSE IF ~HasLen(tools.v)
        THEN [cache |-> tools.v, ret |-> JList(<<>>), requests |-> 1]
      ELSE [cache |-> tools.v, ret |-> tools.v, requests |-> 1]

\* The slip: a failed discovery is cached as the empty list.
GetToolsCachingFailure(cache, response) ==
    IF cache # JNull THEN [cache |-> cache, ret |-> cache, requests |-> 0]
    ELSE LET sent == _send_mcp_request(response) IN
      IF ~sent.ok THEN [cache |-> JList(<<>>), ret |-> JList(<<>>), requests |-> 1]
      ELSE LET tools == ExtractTools(sent.v) IN
        IF ~tools.ok THEN [cache |-> JList(<<>>), ret |-> JList(<<>>), requests |-> 1]
        ELSE IF ~HasLen(tools.v)
          THEN [cache |-> tools.v, ret |-> JList(<<>>), requests |-> 1]
        ELSE [cache |-> tools.v, ret |-> tools.v, requests |-> 1]

\* MCPClient.get_available_tools on a client whose _tools_cache is cache
\* (None is JNull), the tools/list POST, if made, producing response:
\* the cache afterwards, the value returned, the POSTs made.
get_available_tools(cache, response) ==
    IF cache # JNull THEN [cache |-> cache, ret |-> cache, requests |-> 0]
    ELSE LET sent == _send_mcp_request(response) IN
      IF ~sent.ok THEN [cache |-> cache, ret |-> JList(<<>>), requests |-> 1]
      ELSE LET tools == ExtractTools(sent.v) IN
        IF ~tools.ok THEN [cache |-> cache, ret |-> JList(<<>>), requests |-> 1]
        ELSE IF ~HasLen(tools.v)
          THEN [cache |-> tools.v, ret |-> JList(<<>>), requests |-> 1]
        ELSE [cache |-> tools.v, ret |-> tools.v, requests |-> 1]

\* ------------------------------------------------ endpoint and credentials
\* An endpoint URL: the labels of its host, the registered domain being the
\* last and one label, and the segments of its path.
Url(host, path) == [host |-> host, path |-> path]

\* str.lower of a label or a segment.
Lower(s) == IF s = "DevTunnels.MS" THEN "devtunnels.ms" ELSE s

\* "devtunnels.ms" in piece, for the labels and segments of this model.
ContainsTunnelDomain(piece) == piece \in {"devtunnels.ms", "notdevtunnels.ms"}

\* MCPClient._is_azure_devtunnel: "devtunnels.ms" in url.lower(), a test on
\* the whole text of the URL.
_is_azure_devtunnel(url) ==
    \/ \E j \in 1..Len(url.host) : ContainsTunnelDomain(Lower(url.host[j]))
    \/ \E j \in 1..Len(url.path) : ContainsTunnelDomain(Lower(url.path[j]))

\* A DefaultAzureCredential whose get_token returns token, or raises when
\* token is JNull.
Credential(token) == [t |-> "credential", token |-> token]

\* bool(v) of an optional str or an optional credential.
Truthy(v) ==
    CASE v.t = "null" -> FALSE
      [] v.t = "str"  -> v.s # ""
      [] OTHER        -> TRUE

\* MCPClient.__init__'s _azure_credential; built is what
\* DefaultAzureCredential() gives, JNull when it raises.
InitCredential(url, azure_available, built) ==
    IF _is_azure_devtunnel(url) /\ azure_available THEN built ELSE JNull

BaseHeaders ==
    JDict(<<"Accept", "Content-Type", "X-Session-ID", "Cache-Control">>,
          <<JStr("application/json, text/event-stream"), JStr("application/json"),
            JStr("session"), JStr("no-cache")>>)

TunnelHeader == "X-Tunnel-Authorization"

\* headers[name] = value on a dict without the key name.
WithHeader(headers, name, value) ==
    JDict(Append(headers.keys, name), Append(headers.vals, value))

\* f"tunnel {token}"
TunnelScheme(token) == JStr("tunnel " \o token)

\* The slip: the identity provider is asked first, the environment after.
GetHeadersProviderFirst(url, env_token, credential) ==
    IF ~_is_azure_devtunnel(url)
    THEN [headers |-> BaseHeaders, getenv |-> FALSE, get_token |-> FALSE]
    ELSE IF Truthy(credential) /\ credential.token # JNull
      THEN [headers |-> WithHeader(BaseHeaders, TunnelHeader,
                                   TunnelScheme(credential.token.s)),
            getenv |-> FALSE, get_token |-> TRUE]
    ELSE IF Truthy(env_token)
      THEN [headers |-> WithHeader(BaseHeaders, TunnelHeader,
                                   TunnelScheme(env_token.s)),
            getenv |-> TRUE, get_token |-> Truthy(credential)]
    ELSE [headers |-> BaseHeaders, getenv |-> TRUE, get_token |-> Truthy(credential)]

\* The slip: when get_token raises, the header is attached without a token.
GetHeadersBareSchemeOnFailure(url, env_token, credential) ==
    IF ~_is_azure_devtunnel(url)
    THEN [headers |-> BaseHeaders, getenv |-> FALSE, get_token |-> FALSE]
    ELSE IF Truthy(env_token)
      THEN [headers |-> WithHeader(BaseHeaders, TunnelHeader,
                                   TunnelScheme(env_token.s)),
            getenv |-> TRUE, get_token |-> FALSE]
    ELSE IF Truthy(credential)
      THEN [headers |-> WithHeader(BaseHeaders, TunnelHeader,
                                   TunnelScheme(IF credential.token # JNull
                                                THEN credential.token.s ELSE "")),
            getenv |-> TRUE, get_token |-> TRUE]
    ELSE [headers |-> BaseHeaders, getenv |-> TRUE, get_token |-> FALSE]

\* MCPClient._get_headers for a client of base_url url and _azure_credential
\* credential, DEVTUNNEL_ACCESS_TOKEN being env_token (JNull when unset):
\* the headers, whether os.getenv was read, whether get_token was called.
_get_headers(url, env_token, credential) ==
    IF ~_is_azure_devtunnel(url)
    THEN [headers |-> BaseHeaders, getenv |-> FALSE, get_token |-> FALSE]
    ELSE IF Truthy(env_token)
      THEN [headers |-> WithHeader(BaseHeaders, TunnelHeader,
                                   TunnelScheme(env_token.s)),
            getenv |-> TRUE, get_token |-> FALSE]
    ELSE IF Truthy(credential) THEN
      IF credential.token # JNull
      THEN [headers |-> WithHeader(BaseHeaders, TunnelHeader,
                                   TunnelScheme(credential.token.s)),
            getenv |-> TRUE, get_token |-> TRUE]
      ELSE [headers |-> BaseHeaders, getenv |-> TRUE, get_token |-> TRUE]
    ELSE [headers |-> BaseHeaders, getenv |-> TRUE, get_token |-> FALSE]

\* The POST of one _send_mcp_request(method, ...) as the wire sees it.
Post(method, url, env_token, credential) ==
    LET h == _get_headers(url, env_token, credential) IN
    [method |-> method, url |-> url, headers |-> h.headers,
     getenv |-> h.getenv, get_token |-> h.get_token]

\* config.mcp_server_url of a local server.
Localhost == Url(<<"localhost">>, <<"mcp">>)

\* Endpoints: local; a tunnel, in lower and in mixed case; a host outside
\* the tunnel domain whose path, whose subdomain, or whose registered domain
\* spells the tunnel domain.
Urls ==
    { Localhost,
      Url(<<"abc123", "devtunnels.ms">>, <<"mcp">>),
      Url(<<"abc123", "DevTunnels.MS">>, <<"mcp">>),
      Url(<<"example.com">>, <<"devtunnels.ms", "mcp">>),
      Url(<<"devtunnels.ms", "example.com">>, <<"mcp">>),
      Url(<<"notdevtunnels.ms">>, <<"mcp">>) }

\* DEVTUNNEL_ACCESS_TOKEN: unset, set to the empty string, set to a token.
EnvTokens == {JNull, JStr(""), JStr("st")}

\* What DefaultAzureCredential() gives: it raises, a credential that
\* yields a token, a credential whose get_token raises.
BuiltCredentials == {JNull, Credential(JStr("pt")), Credential(JNull)}

\* --------------------------------------------------- what the server says
\* A JSON-RPC response envelope carrying result.
Envelope(result) ==
    JDict(<<"jsonrpc", "id", "result">>, <<JStr("2.0"), JStr("x"), result>>)

\* A 200 response whose SSE body carries the JSON value v.
Ok200(v) ==
    HttpResponse(200, <<SseLine("event: ", <<Word("message")>>),
                        SseLine("data: ", JsonDumps(v))>>)

ToolDescriptor(name) ==
    JDict(<<"name", "description">>, <<JStr(name), JStr("d")>>)

Catalog == JList(<<ToolDescriptor("search"), ToolDescriptor("esql")>>)

RpcError ==
    JDict(<<"jsonrpc", "id", "error">>,
          <<JStr("2.0"), JStr("x"),
            JDict(<<"code", "message">>, <<JNum("-32601"), JStr("not found")>>)>>)

\* Responses in which the request fails: transport, status, framing,
\* payload, JSON-RPC error, an envelope that is no mapping.
FailingResponses ==
    { TransportFailure("ConnectError"),
      HttpResponse(500, <<>>),
      HttpResponse(401, <<SseLine("data: ", JsonDumps(Envelope(Catalog)))>>),
      HttpResponse(200, <<SseLine("event: ", <<Word("message")>>)>>),
      HttpResponse(200, <<SseLine("data: ", <<Punct("{"), Word("invalid")>>)>>),
      Ok200(RpcError),
      Ok200(JList(<<JNum("1")>>)) }

\* Results of tools/list of the two accepted shapes.
CatalogResults ==
    { JDict(<<"tools">>, <<Catalog>>),
      JDict(<<"tools">>, <<JList(<<>>)>>),
      JList(<<ToolDescriptor("search")>>),
      JList(<<>>) }

\* Results of tools/list of neither accepted shape.
OtherListResults ==
    { JDict(<<>>, <<>>),
      JDict(<<"tools">>, <<JNull>>),
      JDict(<<"tools">>, <<JNum("5")>>),
      JDict(<<"tools">>, <<JStr("abc")>>),
      JDict(<<"tools">>, <<JDict(<<"search">>, <<JStr("d")>>)>>),
      JStr("mytools"),
      JStr("a"),
      JList(<<JStr("tools")>>) \* not a sequence of descriptors, yet a sequence
        ,
      JNum("5"),
      JNull }

\* What a tools/list POST may produce; the last is a server that omits the
\* result wrapper.
ListResponses ==
    FailingResponses
    \cup {Ok200(Envelope(r)) : r \in CatalogResults \cup OtherListResults}
    \cup {Ok200(JDict(<<"tools">>, <<Catalog>>))}

NoRequest == [kind |-> "none", msg |-> "", status |-> 0, body |-> <<>>]

\* What a tools/call POST may produce, one result of every JSON type.
CallResults ==
    { JDict(<<"content">>, <<JList(<<JStr("hit")>>)>>),
      JList(<<JStr("hit")>>),
      JStr("hit"),
      JNum("5"),
      JBool(TRUE),
      JNull }

CallResponses ==
    {Ok200(Envelope(r)) : r \in CallResults} \cup {HttpResponse(500, <<>>), Ok200(RpcError)}

LoopCallResponses ==
    {Ok200(Envelope(JDict(<<"content">>, <<JList(<<JStr("hit")>>)>>))), HttpResponse(500, <<>>)}

\* A 2xx response of status whose body is the given data lines, after an
\* event line.
Framed(status, lines) ==
    HttpResponse(status, <<SseLine("event: ", <<Word("message")>>)>> \o lines)

DataLine(v) == SseLine("data: ", JsonDumps(v))
BadDataLine == SseLine("data: ", <<Punct("{"), Word("invalid")>>)
BlankDataLine == SseLine("data: ", <<>>)

OkTrue == JDict(<<"ok">>, <<JBool(TRUE)>>)

\* An envelope carrying error, with or without a result beside it.
ErrorEnvelope(error) ==
    JDict(<<"jsonrpc", "id", "error">>, <<JStr("2.0"), JStr("x"), error>>)
ErrorAndResult(error, result) ==
    JDict(<<"jsonrpc", "id", "result", "error">>,
          <<JStr("2.0"), JStr("x"), result, error>>)

\* Error values: an object, a str, and the values that are false in Python.
ErrorValues ==
    { JDict(<<"code", "message">>, <<JNum("-32601"), JStr("not found")>>),
      JStr("boom"), JNull, JNum("0"), JStr("") }

\* Parsed envelopes: with a result of every kind, without the wrapper, with
\* an error, with both, and JSON values that are no object.
RpcEnvelopes ==
    {Envelope(r) : r \in {OkTrue, JNull, JList(<<JStr("hit")>>),
                          JDict(<<"error">>, <<JStr("inner")>>)}}
    \cup { JDict(<<"tools">>, <<Catalog>>),
           JDict(<<"jsonrpc", "id">>, <<JStr("2.0"), JStr("x")>>),
           JDict(<<>>, <<>>) }
    \cup {ErrorEnvelope(e) : e \in ErrorValues}
    \cup { ErrorAndResult(JStr("boom"), OkTrue), ErrorAndResult(JNull, OkTrue) }
    \cup { JList(<<JNum("1")>>), JList(<<JStr("error")>>), JStr("error"),
           JNum("5"), JNull }

\* Bodies whose framing is the matter: no line, no data line, a data line
\* that is no JSON (alone, before a good one), a data line without text
\* (alone, before a good one, before a bad one), an indented data line, two
\* good data lines.
FramingResponses ==
    { HttpResponse(200, <<>>),
      Framed(200, <<>>),
      Framed(204, <<>>),
      Framed(200, <<BadDataLine>>),
      Framed(200, <<BadDataLine, DataLine(Envelope(OkTrue))>>),
      Framed(200, <<BlankDataLine>>),
      Framed(200, <<BlankDataLine, DataLine(Envelope(OkTrue))>>),
      Framed(200, <<BlankDataLine, BadDataLine>>),
      Framed(200, <<SseLine("  data: ", JsonDumps(Envelope(OkTrue)))>>),
      Framed(201, <<DataLine(Envelope(OkTrue)), DataLine(Envelope(JNull))>>) }

\* Statuses outside 2xx, each with an empty body and with a body that
\* would parse.
StatusResponses ==
    { HttpResponse(status, body) :
        status \in {199, 300, 301, 404, 500},
        body \in {<<>>, <<DataLine(Envelope(OkTrue))>>, <<DataLine(RpcError)>>} }

\* What the POST of a request may produce.
RpcResponses ==
    {TransportFailure("ConnectError")}
    \cup StatusResponses
    \cup FramingResponses
    \cup {Framed(200, <<DataLine(e)>>) : e \in RpcEnvelopes}

\* The two outcomes that matter when the headers are the matter.
AuthResponses == {Framed(200, <<DataLine(Envelope(OkTrue))>>), HttpResponse(401, <<>>)}

\* ------------------------------------------------- what the run service says
RunState ==
    {"queued", "in_progress", "requires_action", "completed", "failed",
     "cancelled", "expired"}

\* Statuses a status fetch may report: RunState and one value outside it.
Statuses == RunState \cup {"cancelling"}

\* The raw arguments of the pending calls: a JSON object, malformed JSON
\* ("{invalid"), JSON that is no object, an empty object.
RawArguments(n) ==
    CASE n % 4 = 1 -> <<Punct("{"), DQ("q"), Punct(":"), DQ("a"), Punct("}")>>
      [] n % 4 = 2 -> <<Punct("{"), Word("invalid")>>
      [] n % 4 = 3 -> <<Punct("["), Num("1"), Punct("]")>>
      [] OTHER     -> <<Punct("{"), Punct("}")>>

\* The n-th pending tool call (tool_call.id, .function.name, .function.arguments).
PendingCall(n) ==
    [id |-> "call_" \o ToString(n),
     name |-> IF n % 2 = 1 THEN "search" ELSE "get_mappings",
     arguments |-> RawArguments(n)]

\* Batches of at most maxlen pending calls drawn, without repetition and in
\* any order, from the calls numbered in ids.
Batches(ids, maxlen) ==
    { [j \in 1..Len(order) |-> PendingCall(order[j])] :
        order \in { o \in UNION {[1..n -> ids] : n \in 0..maxlen} :
                      \A j, k \in 1..Len(o) : j # k => o[j] # o[k] } }

LastErrors ==
    { JDict(<<"code">>, <<JStr("server_error")>>),
      JDict(<<"code">>, <<JStr("rate_limit_exceeded")>>) }

RunId == "run_1"

\* A run as runs.get returns it.
RunObject(status, tool_calls, last_error) ==
    [id |-> RunId, status |-> status, tool_calls |-> tool_calls,
     last_error |-> last_error]

NoRun == RunObject("none", <<>>, JNull)

\* A thread message as messages.list yields it.
ThreadMessage(id, role, has_created_at) ==
    [id |-> id, role |-> role, content |-> "text", has_created_at |-> has_created_at]

ThreadHistories ==
    { <<>>,
      <<ThreadMessage("msg_1", "user", TRUE)>>,
      <<ThreadMessage("msg_2", "assistant", FALSE), ThreadMessage("msg_1", "user", TRUE)>> }

\* --------------------------------------------------------------- state
VARIABLES
    _tools_cache,   \* MCPClient._tools_cache (None is JNull)
    calls,          \* the get_available_tools calls made so far on the client:
                    \* the response to its POST (NoRequest if none), the
                    \* number of POSTs it made, the value it returned
    scenario,       \* "loop": several polls, few tool outcomes; "batch": one
                    \* poll, every tool outcome; "tools": discovery only;
                    \* "rpc": requests and tool calls, every response;
                    \* "auth": the same on any endpoint; "agent": initialize;
                    \* "cache": initialize, then discovery calls on its client;
                    \* "race": overlapping discovery calls on one client;
                    \* "steps": the run loop, every remote operation in two
                    \* steps, its start and its return
    agent_ready,    \* agent_id and thread_id are set
    pc,             \* where run_agent stands
    run,            \* the run object of the last status fetch
    polls,          \* status fetches made
    tool_outputs,   \* _handle_mcp_tool_calls' local list
    last_tool_outputs,  \* AzureAIMCPAgent.last_tool_outputs
    outcome,        \* what run_agent gave its caller
    ops,            \* remote operations since the last status fetch
    fault,          \* the run-level remote operation that raised, if any
    base_url,       \* MCPClient.base_url
    env_token,      \* the environment's DEVTUNNEL_ACCESS_TOKEN (unset is JNull)
    _azure_credential,  \* MCPClient._azure_credential (None is JNull)
    posts,          \* the POSTs the client made, in order
    rpc,            \* the _send_mcp_request and call_tool calls made on the
                    \* client: the response to the POST, the outcome, the
                    \* length of posts before and after
    mcp_tools,      \* AzureAIMCPAgent.mcp_tools
    init_outcome,   \* what AzureAIMCPAgent.initialize gave its caller
    service,        \* the status the run service holds: "running" while the
                    \* run goes on, then the terminal status it settled on
    inflight,       \* the remote operations run_agent began and that have
                    \* not returned yet
    tally,          \* the call ids dispatched, dispatched again, submitted and
                    \* submitted again since run_agent was entered
    callers,        \* the get_available_tools calls that overlap on the
                    \* client: where each stands, what it was given
    runs            \* the run_agent calls made after the first

clientVars ==
    <<_tools_cache, calls, base_url, env_token, _azure_credential, posts, rpc>>
setupVars == <<mcp_tools, init_outcome>>
runVars ==
    <<scenario, agent_ready, pc, run, polls, tool_outputs, last_tool_outputs,
      outcome, ops, fault>>
traceVars == <<service, inflight, tally, callers, runs>>
vars == <<clientVars, runVars, setupVars, traceVars>>

\* --------------------------------------------------------------- client
\* MCPClient.__init__ for the endpoint url, in a process whose environment
\* holds env, azure.identity being importable or not, and
\* DefaultAzureCredential() giving built.
MCPClientInit(url, env, azure_available, built) ==
    /\ base_url = url
    /\ env_token = env
    /\ _azure_credential = InitCredential(url, azure_available, built)
    /\ _tools_cache = JNull
    /\ calls = <<>>
    /\ posts = <<>>
    /\ rpc = <<>>

\* The client of a local server.
ClientInit == MCPClientInit(Localhost, JNull, TRUE, JNull)

\* One call of get_available_tools on the client.
GetAvailableTools ==
    /\ Len(calls) < MaxCalls
    /\ \E response \in ListResponses :
         LET r == get_available_tools(_tools_cache, response) IN
         /\ _tools_cache' = r.cache
         /\ calls' = Append(calls,
                [response |-> IF r.requests = 0 THEN NoRequest ELSE response,
                 requests |-> r.requests,
                 ret |-> r.ret])
         /\ posts' = IF r.requests = 0 THEN posts
                     ELSE Append(posts, Post("tools/list", base_url, env_token,
                                             _azure_credential))
    /\ UNCHANGED <<base_url, env_token, _azure_credential, rpc, runVars, setupVars, traceVars>>

\* The response makes get_available_tools assign _tools_cache: the request
\* returned a result and a value was taken from it.
AssignsCache(response) ==
    /\ _send_mcp_request(response).ok
    /\ ExtractTools(_send_mcp_request(response).v).ok

\* The events so far on the client: calls begun and calls ended.
Clock == Len(callers) + Cardinality({i \in 1..Len(callers) : callers[i].pc = "done"})

\* get_available_tools is entered by one more caller: the cache is there
\* and is returned, or the tools/list POST is made and the caller awaits
\* the response.
BeginGetTools ==
    /\ Len(callers) < MaxCallers
    /\ IF _tools_cache # JNull
       THEN /\ callers' = Append(callers,
                   [pc |-> "done", response |-> NoRequest, requests |-> 0,
                    ret |-> _tools_cache, begun |-> Clock + 1, ended |-> Clock + 2])
            /\ UNCHANGED posts
       ELSE /\ callers' = Append(callers,
                   [pc |-> "awaiting", response |-> NoRequest, requests |-> 1,
                    ret |-> JNull, begun |-> Clock + 1, ended |-> 0])
            /\ posts' = Append(posts, Post("tools/list", base_url, env_token,
                                           _azure_credential))
    /\ UNCHANGED <<_tools_cache, calls, base_url, env_token, _azure_credential,
                   rpc, runVars, setupVars, service, inflight, tally, runs>>

\* The response to the POST of an awaiting caller arrives: the rest of
\* get_available_tools runs, on the cache as it is by now.
EndGetTools ==
    /\ \E i \in 1..Len(callers), response \in ListResponses :
         /\ callers[i].pc = "awaiting"
         /\ \E r \in {get_available_tools(JNull, response)} :
              /\ _tools_cache' = IF AssignsCache(response) THEN r.cache
                                 ELSE _tools_cache
              /\ callers' = [callers EXCEPT ![i] =
                     [pc |-> "done", response |-> response, requests |-> 1,
                      ret |-> r.ret, begun |-> callers[i].begun,
                      ended |-> Clock + 1]]
    /\ UNCHANGED <<calls, base_url, env_token, _azure_credential, posts, rpc,
                   runVars, setupVars, service, inflight, tally, runs>>

\* The responses a scenario lets a request meet.
RequestResponses == IF scenario = "auth" THEN AuthResponses ELSE RpcResponses

\* The responses a scenario lets a tool call meet: every kind of result,
\* and a failure of every kind (transport, status, framing, JSON-RPC error).
ToolCallResponses ==
    IF scenario = "auth" THEN AuthResponses
    ELSE CallResponses \cup {TransportFailure("ConnectError"), Framed(200, <<>>)}

\* One _send_mcp_request(method) made on the client directly.
SendMcpRequest ==
    /\ Len(rpc) < MaxRequests
    /\ \E response \in RequestResponses :
         /\ posts' = Append(posts, Post("tools/list", base_url, env_token,
                                        _azure_credential))
         /\ rpc' = Append(rpc,
                [op |-> "_send_mcp_request", response |-> response,
                 outcome |-> _send_mcp_request(response),
                 before |-> Len(posts), after |-> Len(posts')])
    /\ UNCHANGED <<_tools_cache, calls, base_url, env_token, _azure_credential,
                   runVars, setupVars, traceVars>>

\* One call_tool(tool_name, arguments) made on the client.
CallTool ==
    /\ Len(rpc) < MaxRequests
    /\ \E response \in ToolCallResponses :
         /\ posts' = Append(posts, Post("tools/call", base_url, env_token,
                                        _azure_credential))
         /\ rpc' = Append(rpc,
                [op |-> "call_tool", response |-> response,
                 outcome |-> call_tool(response),
                 before |-> Len(posts), after |-> Len(posts')])
    /\ UNCHANGED <<_tools_cache, calls, base_url, env_token, _azure_credential,
                   runVars, setupVars, traceVars>>

\* ----------------------------------------------------------- run_agent
NoOutcome == [kind |-> "none", value |-> JNull, msg |-> ""]
ReturnedOutcome(value) == [kind |-> "returned", value |-> value, msg |-> ""]
RaisedOutcome(msg) == [kind |-> "raised", value |-> JNull, msg |-> msg]

NoFault == [op |-> "none", polls |-> 0, nops |-> 0]

\* The tool outcomes and the polls the scenario allows.
ScenarioResponses ==
    IF scenario \in {"loop", "steps"} THEN LoopCallResponses ELSE CallResponses
\* The batches met when the loop is followed step by step: none, one call,
\* two calls with the second-numbered first.
StepBatches ==
    {<<>>, <<PendingCall(1)>>, <<PendingCall(2), PendingCall(1)>>}
ScenarioBatches ==
    CASE scenario = "loop"  -> Batches(1..LoopCalls, MaxBatch)
      [] scenario = "steps" -> StepBatches
      [] OTHER              -> Batches(1..MaxBatch, MaxBatch)
PollBudget == IF scenario \in {"loop", "steps"} THEN MaxPolls ELSE 1

\* What a status fetch may return.
RunObservations ==
    {RunObject("requires_action", batch, JNull) : batch \in ScenarioBatches}
    \cup {RunObject("failed", <<>>, e) : e \in LastErrors}
    \cup {RunObject(st, <<>>, JNull) : st \in Statuses \ {"requires_action", "failed"}}

\* The slip: a parse error of the raw arguments is not caught.
ParseArgumentsStrict(raw) ==
    LET r == JsonLoads(raw) IN
    IF r.ok THEN [raised |-> FALSE, arguments |-> r.v]
    ELSE [raised |-> TRUE, arguments |-> JNull]

\* json.loads of the raw arguments, {} on JSONDecodeError.
ParseArguments(raw) ==
    LET r == JsonLoads(raw) IN
    IF r.ok THEN [raised |-> FALSE, arguments |-> r.v]
    ELSE [raised |-> FALSE, arguments |-> JDict(<<>>, <<>>)]

\* The slip: a failure of call_tool is not caught.
ToolOutputUncaught(result) ==
    IF result.ok
    THEN [raised |-> FALSE,
          output |-> IF IsDict(result.v) THEN JsonDumps(result.v) ELSE PyStr(result.v)]
    ELSE [raised |-> TRUE, output |-> <<>>]

\* The output of one tool call from what call_tool gave: the result encoded,
\* or the error payload when call_tool raised.
ToolOutput(result) ==
    IF result.ok
    THEN [raised |-> FALSE,
          output |-> IF IsDict(result.v) THEN JsonDumps(result.v) ELSE PyStr(result.v)]
    ELSE [raised |-> FALSE,
          output |-> JsonDumps(JDict(<<"error", "success">>,
                        <<JStr("Tool execution failed: " \o result.msg), JBool(FALSE)>>))]

\* The slip: a failed submission is logged and the loop goes on.
AfterSubmitSwallowed(ok) == [pc |-> "sleep", outcome |-> NoOutcome]

\* After submit_tool_outputs: back to the loop's sleep, or its exception
\* re-raised through _handle_mcp_tool_calls and run_agent.
AfterSubmit(ok) ==
    IF ok THEN [pc |-> "sleep", outcome |-> NoOutcome]
    ELSE [pc |-> "done", outcome |-> RaisedOutcome("AzureError")]

\* runs.get raised: re-raised by run_agent.
AfterFetchError == [pc |-> "done", outcome |-> RaisedOutcome("AzureError")]

\* The slip: a failed run falls through to the sleep.
AfterFetchFailedPolledOn(r) ==
    CASE r.status = "completed" -> [pc |-> "get_messages", outcome |-> NoOutcome]
      [] r.status = "requires_action" ->
           [pc |-> IF r.tool_calls = <<>> THEN "submit" ELSE "dispatch",
            outcome |-> NoOutcome]
      [] r.status \in {"cancelled", "expired"} ->
           [pc |-> "get_messages", outcome |-> NoOutcome]
      [] OTHER -> [pc |-> "sleep", outcome |-> NoOutcome]

\* The slip: cancelled and expired raise.
AfterFetchTerminalRaises(r) ==
    CASE r.status = "completed" -> [pc |-> "get_messages", outcome |-> NoOutcome]
      [] r.status = "requires_action" ->
           [pc |-> IF r.tool_calls = <<>> THEN "submit" ELSE "dispatch",
            outcome |-> NoOutcome]
      [] r.status = "failed" ->
           [pc |-> "done",
            outcome |-> ReturnedOutcome(JDict(<<"status", "error", "messages">>,
                           <<JStr("failed"), r.last_error, JList(<<>>)>>))]
      [] r.status \in {"cancelled", "expired"} ->
           [pc |-> "done", outcome |-> RaisedOutcome("RuntimeError")]
      [] OTHER -> [pc |-> "sleep", outcome |-> NoOutcome]

\* The slip: a completed run is polled again.
AfterFetchCompletedPolledOn(r) ==
    CASE r.status = "requires_action" ->
           [pc |-> IF r.tool_calls = <<>> THEN "submit" ELSE "dispatch",
            outcome |-> NoOutcome]
      [] r.status = "failed" ->
           [pc |-> "done",
            outcome |-> ReturnedOutcome(JDict(<<"status", "error", "messages">>,
                           <<JStr("failed"), r.last_error, JList(<<>>)>>))]
      [] r.status \in {"cancelled", "expired"} ->
           [pc |-> "get_messages", outcome |-> NoOutcome]
      [] OTHER -> [pc |-> "sleep", outcome |-> NoOutcome]

\* The slip: a status outside RunState ends the loop with a result.
AfterFetchUnknownReturns(r) ==
    CASE r.status = "completed" -> [pc |-> "get_messages", outcome |-> NoOutcome]
      [] r.status = "requires_action" ->
           [pc |-> IF r.tool_calls = <<>> THEN "submit" ELSE "dispatch",
            outcome |-> NoOutcome]
      [] r.status = "failed" ->
           [pc |-> "done",
            outcome |-> ReturnedOutcome(JDict(<<"status", "error", "messages">>,
                           <<JStr("failed"), r.last_error, JList(<<>>)>>))]
      [] r.status \in {"cancelled", "expired"} ->
           [pc |-> "get_messages", outcome |-> NoOutcome]
      [] r.status \notin RunState -> [pc |-> "get_messages", outcome |-> NoOutcome]
      [] OTHER -> [pc |-> "sleep", outcome |-> NoOutcome]

\* The branch on run.status after a status fetch.
AfterFetch(r) ==
    CASE r.status = "completed" -> [pc |-> "get_messages", outcome |-> NoOutcome]
      [] r.status = "requires_action" ->
           [pc |-> IF r.tool_calls = <<>> THEN "submit" ELSE "dispatch",
            outcome |-> NoOutcome]
      [] r.status = "failed" ->
           [pc |-> "done",
            outcome |-> ReturnedOutcome(JDict(<<"status", "error", "messages">>,
                           <<JStr("failed"), r.last_error, JList(<<>>)>>))]
      [] r.status \in {"cancelled", "expired"} ->
           [pc |-> "get_messages", outcome |-> NoOutcome]
      [] OTHER -> [pc |-> "sleep", outcome |-> NoOutcome]

\* One formatted message of get_messages.
FormatMessage(m) ==
    JDict(<<"id", "role", "content", "created_at">>,
          <<JStr(m.id), JStr(m.role), JStr(m.content),
            IF m.has_created_at THEN JNum("1700000000") ELSE JNull>>)

\* An exception that left get_messages, in the place of its return value.
Propagated == [t |-> "exception"]

\* The slip: a failure of messages.list is not caught.
GetMessagesUncaught(listing) ==
    IF ~listing.ok THEN Propagated
    ELSE JList([j \in 1..Len(listing.history) |-> FormatMessage(listing.history[j])])

\* AzureAIMCPAgent.get_messages: the formatted history, [] when
\* messages.list raised.
get_messages(listing) ==
    IF ~listing.ok THEN JList(<<>>)
    ELSE JList([j \in 1..Len(listing.history) |-> FormatMessage(listing.history[j])])

\* The dict run_agent returns once it has the messages.
RunResult(r, messages) ==
    IF r.status = "completed"
    THEN JDict(<<"status", "messages", "run_id">>,
               <<JStr(r.status), messages, JStr(r.id)>>)
    ELSE JDict(<<"status", "messages">>, <<JStr(r.status), messages>>)

\* How run_agent ends once get_messages is through: the result returned,
\* or the exception of get_messages re-raised.
AfterMessages(r, messages) ==
    IF messages = Propagated THEN RaisedOutcome("AzureError")
    ELSE ReturnedOutcome(RunResult(r, messages))

\* The slip: the submitted batch drops the outputs of failed calls.
SubmittedBatchSkippingErrors(outputs) ==
    SelectSeq(outputs, LAMBDA o : JsonLoads(o.output).ok
                                  => ~(IsDict(JsonLoads(o.output).v)
                                       /\ HasKey(JsonLoads(o.output).v, "error")))

\* The tool_outputs argument of submit_tool_outputs.
SubmittedBatch(outputs) == outputs

\* One entry of last_tool_outputs.
StoredOutput(tool_call, output) ==
    [tool_name |-> tool_call.name, arguments |-> tool_call.arguments,
     output |-> output.output]

\* The slip: the list is not emptied first, the entries are added to it.
StoredOutputsAccumulated(previous, tool_calls, outputs) ==
    previous \o [j \in 1..Len(tool_calls) |-> StoredOutput(tool_calls[j], outputs[j])]

\* last_tool_outputs as the handler stores it, previous being what it held:
\* emptied, then one entry per pending call.
StoredOutputs(previous, tool_calls, outputs) ==
    [j \in 1..Len(tool_calls) |-> StoredOutput(tool_calls[j], outputs[j])]

\* ----------------------------------------------------------- initialize
\* _setup_mcp_tools' excluded_tools.
excluded_tools == {"esql"}

\* The characters of the strs a discovery of this model may return.
Chars(s) ==
    CASE s = ""    -> <<>>
      [] s = "abc" -> <<"a", "b", "c">>
      [] OTHER     -> <<s>>

\* for tool in v: the values the loop meets, or not ok (TypeError).
PyIter(v) ==
    CASE v.t = "list" -> [ok |-> TRUE, items |-> v.items]
      [] v.t = "dict" -> [ok |-> TRUE, items |-> [j \in 1..Len(v.keys) |-> JStr(v.keys[j])]]
      [] v.t = "str"  -> [ok |-> TRUE,
                          items |-> [j \in 1..Len(Chars(v.s)) |-> JStr(Chars(v.s)[j])]]
      [] OTHER        -> [ok |-> FALSE, items |-> <<>>]

\* hash(v) succeeds, as a member test on a set needs.
Hashable(v) == v.t \notin {"list", "dict"}

\* tool.get("name") raises (no dict) or the member test on it does.
FilterRaises(tool) ==
    ~IsDict(tool) \/ ~Hashable(DictGet(tool, "name", JNull))

\* The slip: nothing is excluded.
KeptAlways(tool) == TRUE

\* tool.get("name") not in excluded_tools, for a dict tool.
Kept(tool) == DictGet(tool, "name", JNull) \notin {JStr(n) : n \in excluded_tools}

\* The parameters of a tool that names no inputSchema.
DefaultParameters ==
    JDict(<<"type", "properties", "required">>,
          <<JStr("object"), JDict(<<>>, <<>>), JList(<<>>)>>)

\* The slip: mcp_tool["inputSchema"], a KeyError when the key is missing.
ConvertRequiringSchema(mcp_tool) ==
    IF ~HasKey(mcp_tool, "inputSchema") THEN Raised("KeyError: 'inputSchema'")
    ELSE Returned(
      JDict(<<"type", "function">>,
            <<JStr("function"),
              JDict(<<"name", "description", "parameters">>,
                    <<DictGet(mcp_tool, "name", JStr("unknown_tool")),
                      DictGet(mcp_tool, "description", JStr("")),
                      DictItem(mcp_tool, "inputSchema")>>)>>))

\* AzureAIMCPAgent._convert_mcp_tool_to_azure_format, for a dict mcp_tool.
_convert_mcp_tool_to_azure_format(mcp_tool) ==
    Returned(
      JDict(<<"type", "function">>,
            <<JStr("function"),
              JDict(<<"name", "description", "parameters">>,
                    <<DictGet(mcp_tool, "name", JStr("unknown_tool")),
                      DictGet(mcp_tool, "description", JStr("")),
                      DictGet(mcp_tool, "inputSchema", DefaultParameters)>>)>>))

\* The part of _setup_mcp_tools after discovery, self.mcp_tools being
\* old_tools: it raised or not, and self.mcp_tools afterwards. The list is
\* emptied once the filter is through and filled tool by tool.
_setup_mcp_tools(old_tools, discovered) ==
    LET found == PyIter(discovered) IN
    IF ~found.ok
    THEN [raised |-> TRUE, msg |-> "TypeError: object is not iterable",
          mcp_tools |-> old_tools]
    ELSE IF \E j \in 1..Len(found.items) : FilterRaises(found.items[j])
      THEN [raised |-> TRUE, msg |-> "AttributeError or TypeError in the filter",
            mcp_tools |-> old_tools]
    ELSE LET filtered_tools == SelectSeq(found.items, Kept)
             converted == [j \in 1..Len(filtered_tools) |->
                             _convert_mcp_tool_to_azure_format(filtered_tools[j])]
             failing == {j \in 1..Len(converted) : ~converted[j].ok}
             done == IF failing = {} THEN Len(converted)
                     ELSE (CHOOSE j \in failing : \A k \in failing : j <= k) - 1
         IN [raised |-> failing # {},
             msg |-> IF failing = {} THEN "" ELSE converted[done + 1].msg,
             mcp_tools |-> JList([j \in 1..done |-> converted[j].v])]

\* The try block of _test_mcp_connection raises on tools: len(tools), or
\* tool.get on one of them.
ConnectionTestRaises(tools) ==
    \/ ~HasLen(tools)
    \/ \E j \in 1..Len(PyIter(tools).items) : ~IsDict(PyIter(tools).items[j])

\* The slip: a connection test that finds no tool raises.
TestConnectionRequiringTools(tools) ==
    IF ConnectionTestRaises(tools) \/ PyIter(tools).items = <<>>
    THEN Raised("MCP server connection test failed")
    ELSE Returned(JNull)

\* The part of _test_mcp_connection after discovery: whatever the try block
\* raises is logged as a warning.
_test_mcp_connection(tools) == Returned(JNull)

\* One get_available_tools call as the log of calls keeps it.
CallRecord(r, response) ==
    [response |-> IF r.requests = 0 THEN NoRequest ELSE response,
     requests |-> r.requests, ret |-> r.ret]

\* initialize from _test_mcp_connection's own lines on, its discovery
\* having given again.
InitializeTested(setup, discovery, first, second, again) ==
    LET test == _test_mcp_connection(again.ret) IN
    [outcome |-> IF test.ok THEN ReturnedOutcome(JNull) ELSE RaisedOutcome(test.msg),
     mcp_tools |-> setup.mcp_tools,
     cache |-> again.cache,
     calls |-> <<CallRecord(discovery, first), CallRecord(again, second)>>]

\* initialize from the end of _setup_mcp_tools on, which gave setup.
InitializeSetUp(setup, discovery, first, second) ==
    IF setup.raised
    THEN [outcome |-> RaisedOutcome(setup.msg), mcp_tools |-> setup.mcp_tools,
          cache |-> discovery.cache,
          calls |-> <<CallRecord(discovery, first)>>]
    ELSE InitializeTested(setup, discovery, first, second,
                          get_available_tools(discovery.cache, second))

\* initialize from the filter of _setup_mcp_tools on, its discovery having
\* given discovery.
InitializeDiscovered(old_tools, discovery, first, second) ==
    InitializeSetUp(_setup_mcp_tools(old_tools, discovery.ret), discovery,
                    first, second)

\* AzureAIMCPAgent.initialize on an agent whose mcp_tools is old_tools:
\* AIProjectClient(...) succeeds or raises, a new MCPClient is made, the
\* tools/list POST of _setup_mcp_tools produces first and the one of
\* _test_mcp_connection, if made, produces second.
initialize(project_ok, old_tools, first, second) ==
    IF ~project_ok
    THEN [outcome |-> RaisedOutcome("AzureError"), mcp_tools |-> old_tools,
          cache |-> JNull, calls |-> <<>>]
    ELSE InitializeDiscovered(old_tools, get_available_tools(JNull, first),
                              first, second)

\* Descriptors as a server lists them: whole, without parameter schema,
\* without description, without name, without anything.
Schema == JDict(<<"type">>, <<JStr("object")>>)
Descriptors ==
    { JDict(<<"name", "description", "inputSchema">>,
            <<JStr("search"), JStr("d"), Schema>>),
      ToolDescriptor("esql"),
      JDict(<<"name", "inputSchema">>, <<JStr("get_mappings"), Schema>>),
      JDict(<<"description">>, <<JStr("d")>>),
      JDict(<<>>, <<>>) }

\* The sequences of at most maxlen descriptors.
DescriptorSeqs(maxlen) == UNION {[1..n -> Descriptors] : n \in 0..maxlen}

\* What the tools/list POST of _setup_mcp_tools may produce: what any
\* discovery may meet, and every listing of at most MaxTools descriptors.
SetupResponses ==
    ListResponses
    \cup {Ok200(Envelope(JDict(<<"tools">>, <<JList(seq)>>))) :
            seq \in DescriptorSeqs(MaxTools)}

\* What the tools/list POST of _test_mcp_connection may produce.
TestResponses == FailingResponses \cup {Ok200(Envelope(JDict(<<"tools">>, <<Catalog>>)))}

\* AzureAIMCPAgent.__init__, the part initialize works on.
SetupInit ==
    /\ mcp_tools = JList(<<>>)
    /\ init_outcome = NoOutcome

\* Nothing begun, nothing dispatched, nobody calling.
NoTally == [dispatched |-> {}, redispatched |-> {}, submitted |-> {}, resubmitted |-> {}]
TraceInit ==
    /\ service = "running"
    /\ inflight = <<>>
    /\ tally = NoTally
    /\ callers = <<>>
    /\ runs = 0

\* The get_available_tools call made a POST.
MadeRequest(call) == call.requests = 1

\* One call of initialize on a new agent.
Initialize ==
    /\ init_outcome = NoOutcome
    /\ \E project_ok \in BOOLEAN, first \in SetupResponses, second \in TestResponses :
         \E r \in {initialize(project_ok, mcp_tools, first, second)} :
            /\ init_outcome' = r.outcome
            /\ mcp_tools' = r.mcp_tools
            /\ _tools_cache' = r.cache
            /\ calls' = calls \o r.calls
            /\ posts' = posts \o [j \in 1..Len(SelectSeq(r.calls, MadeRequest)) |->
                                     Post("tools/list", base_url, env_token,
                                          _azure_credential)]
    /\ UNCHANGED <<base_url, env_token, _azure_credential, rpc, runVars, traceVars>>

\* AzureAIMCPAgent.list_available_tools on an agent whose initialize made
\* the client: one more get_available_tools call on that client.
ListAvailableTools ==
    /\ init_outcome # NoOutcome
    /\ init_outcome # RaisedOutcome("AzureError")
    /\ GetAvailableTools

RunInit ==
    /\ SetupInit
    /\ TraceInit
    /\ agent_ready \in BOOLEAN
    /\ pc = "start"
    /\ run = NoRun
    /\ polls = 0
    /\ tool_outputs = <<>>
    /\ last_tool_outputs = <<>>
    /\ outcome = NoOutcome
    /\ ops = <<>>
    /\ fault = NoFault

\* run_agent up to the first status fetch: the guard and runs.create.
RunAgentStart ==
    /\ pc = "start"
    /\ IF ~agent_ready
       THEN /\ pc' = "done"
            /\ outcome' = RaisedOutcome("ValueError")
            /\ UNCHANGED <<ops, fault>>
       ELSE \E ok \in BOOLEAN :
            /\ ops' = <<[op |-> "create_run"]>>
            /\ IF ok
               THEN /\ pc' = "fetch"
                    /\ UNCHANGED <<outcome, fault>>
               ELSE /\ pc' = "done"
                    /\ outcome' = RaisedOutcome("AzureError")
                    /\ fault' = [op |-> "create", polls |-> polls, nops |-> 1]
    /\ UNCHANGED <<scenario, agent_ready, run, polls, tool_outputs,
                   last_tool_outputs, clientVars, setupVars, traceVars>>

\* runs.get raises.
GetRunFails ==
    /\ pc = "fetch"
    /\ polls < PollBudget
    /\ polls' = polls + 1
    /\ ops' = <<>>
    /\ pc' = AfterFetchError.pc
    /\ outcome' = AfterFetchError.outcome
    /\ fault' = [op |-> "get", polls |-> polls + 1, nops |-> 0]
    /\ UNCHANGED <<scenario, agent_ready, run, tool_outputs, last_tool_outputs,
                   clientVars, setupVars, traceVars>>

\* One status fetch and the branch on the status it reports.
GetRun ==
    /\ pc = "fetch"
    /\ polls < PollBudget
    /\ \E r \in RunObservations :
         /\ run' = r
         /\ pc' = AfterFetch(r).pc
         /\ outcome' = AfterFetch(r).outcome
    /\ polls' = polls + 1
    /\ ops' = <<>>
    /\ tool_outputs' = <<>>
    /\ UNCHANGED <<scenario, agent_ready, last_tool_outputs, fault, clientVars, setupVars, traceVars>>

\* One iteration of the loop over the pending tool calls.
DispatchToolCall ==
    /\ pc = "dispatch"
    /\ LET tool_call == run.tool_calls[Len(tool_outputs) + 1]
           parsed == ParseArguments(tool_call.arguments)
       IN
       IF parsed.raised
       THEN /\ pc' = "done"
            /\ outcome' = RaisedOutcome("JSONDecodeError")
            /\ UNCHANGED <<tool_outputs, ops>>
       ELSE \E response \in ScenarioResponses :
            LET result == call_tool(response)
                out == ToolOutput(result)
            IN
            /\ ops' = Append(ops, [op |-> "call_tool", id |-> tool_call.id,
                                   tool_name |-> tool_call.name,
                                   arguments |-> parsed.arguments,
                                   result |-> result])
            /\ IF out.raised
               THEN /\ pc' = "done"
                    /\ outcome' = RaisedOutcome(result.msg)
                    /\ UNCHANGED tool_outputs
               ELSE /\ tool_outputs' =
                         Append(tool_outputs, [tool_call_id |-> tool_call.id,
                                               output |-> out.output])
                    /\ pc' = IF Len(tool_outputs) + 1 = Len(run.tool_calls)
                             THEN "submit" ELSE "dispatch"
                    /\ UNCHANGED outcome
    /\ UNCHANGED <<scenario, agent_ready, run, polls, last_tool_outputs, fault,
                   clientVars, setupVars, traceVars>>

\* The end of _handle_mcp_tool_calls: last_tool_outputs is stored, the batch
\* is submitted.
SubmitToolOutputs ==
    /\ pc = "submit"
    /\ last_tool_outputs' =
         StoredOutputs(last_tool_outputs, run.tool_calls, tool_outputs)
    /\ \E ok \in BOOLEAN :
         /\ ops' = Append(ops, [op |-> "submit_tool_outputs", run_id |-> run.id,
                                tool_outputs |-> SubmittedBatch(tool_outputs)])
         /\ pc' = AfterSubmit(ok).pc
         /\ outcome' = AfterSubmit(ok).outcome
         /\ fault' = IF ok THEN fault
                     ELSE [op |-> "submit", polls |-> polls, nops |-> Len(ops) + 1]
    /\ tool_outputs' = <<>>
    /\ UNCHANGED <<scenario, agent_ready, run, polls, clientVars, setupVars, traceVars>>

\* asyncio.sleep(1) at the end of a loop iteration.
Sleep ==
    /\ pc = "sleep"
    /\ pc' = "fetch"
    /\ ops' = Append(ops, [op |-> "sleep"])
    /\ UNCHANGED <<scenario, agent_ready, run, polls, tool_outputs,
                   last_tool_outputs, outcome, fault, clientVars, setupVars, traceVars>>

\* get_messages and the return that follows it.
GetMessages ==
    /\ pc = "get_messages"
    /\ \E listing \in {[ok |-> FALSE, history |-> <<>>]}
                      \cup {[ok |-> TRUE, history |-> h] : h \in ThreadHistories} :
         /\ outcome' = AfterMessages(run, get_messages(listing))
         /\ ops' = Append(ops, [op |-> "list_messages", listing |-> listing])
    /\ pc' = "done"
    /\ UNCHANGED <<scenario, agent_ready, run, polls, tool_outputs,
                   last_tool_outputs, fault, clientVars, setupVars, traceVars>>

\* ------------------------------------------- run_agent, start and return
\* The loop once more, each remote operation of it in two steps: the call
\* is begun, the call returns or raises. A coroutine that awaits stands
\* between the two.
TerminalStatuses == {"completed", "failed", "cancelled", "expired"}

\* A remote operation begun: runs.get, call_tool or submit_tool_outputs.
Operation(op, id, tool_name, arguments) ==
    [op |-> op, id |-> id, tool_name |-> tool_name, arguments |-> arguments]

\* What a status fetch may return, given what the service holds: any
\* status that is not terminal while the run goes on, the terminal status
\* from then on.
ServiceObservations ==
    IF service = "running"
    THEN {r \in RunObservations : r.status \notin TerminalStatuses}
    ELSE {r \in RunObservations : r.status = service}

\* The service ends the run.
RunSettles ==
    /\ service = "running"
    /\ service' \in TerminalStatuses
    /\ UNCHANGED <<clientVars, runVars, setupVars, inflight, tally, callers, runs>>

\* The slip: the calls of a batch are all begun before one is awaited.
AfterCallBegunTogether(n, total) == IF n < total THEN "dispatch" ELSE "calling"

\* Where the handler stands once call n of total is begun: at the await.
AfterCallBegun(n, total) == "calling"

\* The dispatch of call id is counted.
Dispatched(t, id) ==
    [t EXCEPT !.redispatched = @ \cup ({id} \cap t.dispatched),
              !.dispatched = @ \cup {id}]

\* The submission of outputs for the call ids is counted.
Submitted(t, ids) ==
    [t EXCEPT !.resubmitted = @ \cup (ids \cap t.submitted),
              !.submitted = @ \cup ids]

\* runs.get is called.
BeginGetRun ==
    /\ pc = "fetch"
    /\ pc' = "fetching"
    /\ polls' = IF polls < PollBudget THEN polls + 1 ELSE polls
    /\ inflight' = Append(inflight, Operation("get_run", RunId, "", JNull))
    /\ UNCHANGED <<scenario, agent_ready, run, tool_outputs, last_tool_outputs,
                   outcome, ops, fault, clientVars, setupVars, service, tally,
                   callers, runs>>

\* runs.get returns what the service holds, or raises.
EndGetRun ==
    /\ pc = "fetching"
    /\ inflight' = <<>>
    /\ ops' = <<>>
    /\ \/ \E r \in ServiceObservations :
            /\ run' = r
            /\ pc' = AfterFetch(r).pc
            /\ outcome' = AfterFetch(r).outcome
            /\ tool_outputs' = <<>>
            /\ UNCHANGED fault
       \/ /\ pc' = AfterFetchError.pc
          /\ outcome' = AfterFetchError.outcome
          /\ fault' = [op |-> "get", polls |-> polls, nops |-> 0]
          /\ UNCHANGED <<run, tool_outputs>>
    /\ UNCHANGED <<scenario, agent_ready, polls, last_tool_outputs, clientVars,
                   setupVars, service, tally, callers, runs>>

\* The next pending call is parsed and call_tool is called.
BeginToolCall ==
    /\ pc = "dispatch"
    /\ LET n == Len(tool_outputs) + Len(inflight) + 1
           tool_call == run.tool_calls[n]
           parsed == ParseArguments(tool_call.arguments)
       IN
       IF parsed.raised
       THEN /\ pc' = "done"
            /\ outcome' = RaisedOutcome("JSONDecodeError")
            /\ UNCHANGED <<inflight, tally>>
       ELSE /\ inflight' = Append(inflight,
                                  Operation("call_tool", tool_call.id,
                                            tool_call.name, parsed.arguments))
            /\ tally' = Dispatched(tally, tool_call.id)
            /\ pc' = AfterCallBegun(n, Len(run.tool_calls))
            /\ UNCHANGED outcome
    /\ UNCHANGED <<scenario, agent_ready, run, polls, tool_outputs,
                   last_tool_outputs, ops, fault, clientVars, setupVars, service,
                   callers, runs>>

\* What call_tool gives on each response the loop may meet, and the output
\* the handler makes of it.
LoopCallOutcomes ==
    {[result |-> call_tool(r), out |-> ToolOutput(call_tool(r))] :
       r \in LoopCallResponses}

\* call_tool returns or raises, the output is appended.
EndToolCall ==
    /\ pc = "calling"
    /\ inflight # <<>>
    /\ inflight' = Tail(inflight)
    /\ \E call \in LoopCallOutcomes :
            /\ ops' = Append(ops, [op |-> "call_tool", id |-> Head(inflight).id,
                                   tool_name |-> Head(inflight).tool_name,
                                   arguments |-> Head(inflight).arguments,
                                   result |-> call.result])
            /\ IF call.out.raised
               THEN /\ pc' = "done"
                    /\ outcome' = RaisedOutcome(call.result.msg)
                    /\ UNCHANGED tool_outputs
               ELSE /\ tool_outputs' =
                         Append(tool_outputs, [tool_call_id |-> Head(inflight).id,
                                               output |-> call.out.output])
                    /\ pc' = IF Len(tool_outputs) + 1 = Len(run.tool_calls)
                             THEN "submit"
                             ELSE IF Tail(inflight) # <<>> THEN "calling"
                             ELSE "dispatch"
                    /\ UNCHANGED outcome
    /\ UNCHANGED <<scenario, agent_ready, run, polls, last_tool_outputs, fault,
                   clientVars, setupVars, service, tally, callers, runs>>

\* last_tool_outputs is stored and submit_tool_outputs is called.
BeginSubmit ==
    /\ pc = "submit"
    /\ pc' = "submitting"
    /\ last_tool_outputs' =
         StoredOutputs(last_tool_outputs, run.tool_calls, tool_outputs)
    /\ inflight' = Append(inflight,
                          Operation("submit_tool_outputs", run.id, "", JNull))
    /\ tally' = Submitted(tally, {SubmittedBatch(tool_outputs)[j].tool_call_id :
                                    j \in 1..Len(SubmittedBatch(tool_outputs))})
    /\ UNCHANGED <<scenario, agent_ready, run, polls, tool_outputs, outcome, ops,
                   fault, clientVars, setupVars, service, callers, runs>>

\* submit_tool_outputs returns or raises.
EndSubmit ==
    /\ pc = "submitting"
    /\ inflight' = <<>>
    /\ tool_outputs' = <<>>
    /\ ops' = Append(ops, [op |-> "submit_tool_outputs", run_id |-> run.id,
                           tool_outputs |-> SubmittedBatch(tool_outputs)])
    /\ \E ok \in BOOLEAN :
         /\ pc' = AfterSubmit(ok).pc
         /\ outcome' = AfterSubmit(ok).outcome
         /\ fault' = IF ok THEN fault
                     ELSE [op |-> "submit", polls |-> polls, nops |-> Len(ops) + 1]
    /\ UNCHANGED <<scenario, agent_ready, run, polls, last_tool_outputs,
                   clientVars, setupVars, service, tally, callers, runs>>

\* run_agent is called again on the agent once a call of it is through: a
\* new run, the locals anew, last_tool_outputs as it was left.
RunAgentAgain ==
    /\ pc = "done"
    /\ runs < MaxRuns
    /\ runs' = runs + 1
    /\ pc' = "start"
    /\ run' = NoRun
    /\ polls' = 0
    /\ tool_outputs' = <<>>
    /\ outcome' = NoOutcome
    /\ ops' = <<>>
    /\ fault' = NoFault
    /\ service' = "running"
    /\ inflight' = <<>>
    /\ tally' = NoTally
    /\ UNCHANGED <<scenario, agent_ready, last_tool_outputs, clientVars,
                   setupVars, callers>>

\* ------------------------------------------------------- specifications
\* Several polls of one run.
Init == ClientInit /\ RunInit /\ scenario = "loop"
Next ==
    \/ RunAgentStart
    \/ GetRun
    \/ GetRunFails
    \/ DispatchToolCall
    \/ SubmitToolOutputs
    \/ Sleep
    \/ GetMessages
Spec == Init /\ [][Next]_vars

\* One poll, every kind of tool result.
InitBatch == ClientInit /\ RunInit /\ scenario = "batch"
SpecBatch == InitBatch /\ [][Next]_vars

\* One run, the remote operations in two steps, against a service that
\* ends the run at some time.
InitSteps == ClientInit /\ RunInit /\ scenario = "steps"
NextSteps ==
    \/ RunAgentStart
    \/ RunSettles
    \/ BeginGetRun
    \/ EndGetRun
    \/ BeginToolCall
    \/ EndToolCall
    \/ BeginSubmit
    \/ EndSubmit
    \/ Sleep
    \/ GetMessages
SpecSteps == InitSteps /\ [][NextSteps]_vars

\* Several run_agent calls in sequence on one agent.
NextRuns == NextSteps \/ RunAgentAgain
SpecRuns == InitSteps /\ [][NextRuns]_vars

\* The same, the coroutine being scheduled whenever it can go on, every
\* remote call coming back, and the service ending the run at last.
SpecLive == SpecSteps /\ WF_vars(NextSteps) /\ WF_vars(RunSettles)

\* Discovery on one client.
InitTools ==
    /\ ClientInit
    /\ SetupInit
    /\ TraceInit
    /\ scenario = "tools"
    /\ agent_ready = FALSE
    /\ pc = "idle"
    /\ run = NoRun
    /\ polls = 0
    /\ tool_outputs = <<>>
    /\ last_tool_outputs = <<>>
    /\ outcome = NoOutcome
    /\ ops = <<>>
    /\ fault = NoFault
NextTools == GetAvailableTools
SpecTools == InitTools /\ [][NextTools]_vars

\* Callers of get_available_tools that overlap on one client.
InitRace ==
    /\ ClientInit
    /\ SetupInit
    /\ TraceInit
    /\ scenario = "race"
    /\ agent_ready = FALSE
    /\ pc = "idle"
    /\ run = NoRun
    /\ polls = 0
    /\ tool_outputs = <<>>
    /\ last_tool_outputs = <<>>
    /\ outcome = NoOutcome
    /\ ops = <<>>
    /\ fault = NoFault
NextRace == BeginGetTools \/ EndGetTools
SpecRace == InitRace /\ [][NextRace]_vars

\* Requests and tool calls on the client of a local server, every response.
InitRpc ==
    /\ ClientInit
    /\ SetupInit
    /\ TraceInit
    /\ scenario = "rpc"
    /\ agent_ready = FALSE
    /\ pc = "idle"
    /\ run = NoRun
    /\ polls = 0
    /\ tool_outputs = <<>>
    /\ last_tool_outputs = <<>>
    /\ outcome = NoOutcome
    /\ ops = <<>>
    /\ fault = NoFault
NextRpc == SendMcpRequest \/ CallTool
SpecRpc == InitRpc /\ [][NextRpc]_vars

\* Requests and tool calls on a client of any endpoint, in any environment.
InitAuth ==
    /\ \E url \in Urls, env \in EnvTokens, azure_available \in BOOLEAN,
          built \in BuiltCredentials :
         MCPClientInit(url, env, azure_available, built)
    /\ SetupInit
    /\ TraceInit
    /\ scenario = "auth"
    /\ agent_ready = FALSE
    /\ pc = "idle"
    /\ run = NoRun
    /\ polls = 0
    /\ tool_outputs = <<>>
    /\ last_tool_outputs = <<>>
    /\ outcome = NoOutcome
    /\ ops = <<>>
    /\ fault = NoFault
SpecAuth == InitAuth /\ [][NextRpc]_vars

\* The initialization of one agent.
InitAgent ==
    /\ ClientInit
    /\ SetupInit
    /\ TraceInit
    /\ scenario = "agent"
    /\ agent_ready = FALSE
    /\ pc = "idle"
    /\ run = NoRun
    /\ polls = 0
    /\ tool_outputs = <<>>
    /\ last_tool_outputs = <<>>
    /\ outcome = NoOutcome
    /\ ops = <<>>
    /\ fault = NoFault
NextAgent == Initialize
SpecAgent == InitAgent /\ [][NextAgent]_vars

\* The client of one agent from its making in initialize on.
InitCache ==
    /\ ClientInit
    /\ SetupInit
    /\ TraceInit
    /\ scenario = "cache"
    /\ agent_ready = FALSE
    /\ pc = "idle"
    /\ run = NoRun
    /\ polls = 0
    /\ tool_outputs = <<>>
    /\ last_tool_outputs = <<>>
    /\ outcome = NoOutcome
    /\ ops = <<>>
    /\ fault = NoFault
NextCache == Initialize \/ ListAvailableTools
SpecCache == InitCache /\ [][NextCache]_vars

\* ------------------------------------------------------ discovery claims
\* The tools/list request of a logged call returned a result.
RequestSucceeded(call) == call.requests = 1 /\ _send_mcp_request(call.response).ok

RequestFailed(call) == call.requests = 1 /\ ~_send_mcp_request(call.response).ok

\* The result is {tools: [...]} or a bare sequence.
AcceptedShape(result) ==
    \/ IsDict(result) /\ HasKey(result, "tools") /\ IsList(DictItem(result, "tools"))
    \/ IsList(result)

\* The result is {tools: [...]}, a bare sequence of descriptors, or a
\* mapping without a tools key.
YieldsCatalog(result) ==
    \/ IsDict(result) /\ HasKey(result, "tools") /\ IsList(DictItem(result, "tools"))
    \/ IsList(result) /\ \A j \in 1..Len(result.items) : IsDict(result.items[j])
    \/ IsDict(result) /\ ~HasKey(result, "tools")

\* C3 as stated: two calls in sequence on one client issue exactly one
\* tools/list transport call in total, and the second returns what the
\* first returned.
C3_OneTransportCallAlways ==
    Len(calls) >= 2 =>
      /\ calls[1].requests + calls[2].requests = 1
      /\ calls[2].ret = calls[1].ret

\* C3 amended: when the first call's tools/list request returns a result of
\* shape {tools: [...]}, a bare sequence of descriptors or a mapping without
\* a tools key, two calls in sequence issue exactly one transport call in
\* total and the second returns a result equal to the first; when the first
\* call's request fails, the cache stays unpopulated and the second call
\* issues a second tools/list request.
C3_CachedAfterSuccess ==
    Len(calls) >= 2 =>
      /\ (/\ RequestSucceeded(calls[1])
          /\ YieldsCatalog(_send_mcp_request(calls[1].response).v))
         => /\ calls[1].requests + calls[2].requests = 1
            /\ calls[2].ret = calls[1].ret
      /\ RequestFailed(calls[1])
         => /\ calls[1].ret = JList(<<>>)
            /\ calls[2].requests = 1

\* A second call answered from the cache with the catalog the first fetched.
C3_Witness ==
    /\ Len(calls) >= 2
    /\ RequestSucceeded(calls[1])
    /\ calls[1].ret = Catalog
    /\ calls[2].requests = 0
    /\ calls[2].ret = Catalog

\* C4 as stated: a call whose tools/list request fails, or returns a result
\* that is neither {tools: [...]} nor a bare sequence, returns an empty
\* sequence.
C4_DiscoveryDegradesToEmpty ==
    \A n \in 1..Len(calls) :
      (\/ RequestFailed(calls[n])
       \/ /\ RequestSucceeded(calls[n])
          /\ ~AcceptedShape(_send_mcp_request(calls[n].response).v))
      => calls[n].ret = JList(<<>>)

\* ------------------------------------------------------- run-loop claims
CallOps == SelectSeq(ops, LAMBDA o : o.op = "call_tool")
SubmitOps == SelectSeq(ops, LAMBDA o : o.op = "submit_tool_outputs")

\* The handler of the batch last observed has run to its end.
HandlerReturned == run.status = "requires_action" /\ pc \in {"sleep", "fetch"}

\* The outputs of the batch in hand: those submitted, else those collected.
BatchOutputs ==
    IF SubmitOps # <<>> THEN SubmitOps[1].tool_outputs ELSE tool_outputs

CallIds(batch) == [j \in 1..Len(batch) |-> batch[j].id]
OutputIds(outputs) == [j \in 1..Len(outputs) |-> outputs[j].tool_call_id]

\* The output text decodes to {error: <message>, success: false}.
IsErrorPayload(output, msg) ==
    JsonLoads(output) =
      [ok |-> TRUE,
       v |-> JDict(<<"error", "success">>,
                   <<JStr("Tool execution failed: " \o msg), JBool(FALSE)>>)]

\* C1: in a requires_action batch, a call whose dispatch through call_tool
\* fails does not abort the batch: the calls are dispatched one per pending
\* call in batch order, the failed call's output decodes to
\* {error: <message>, success: false}, run_agent does not raise unless the
\* submission itself does, and once the handler is through every pending
\* call was dispatched and the batch was submitted.
C1_FailureContained ==
    run.status = "requires_action" =>
      /\ Len(CallOps) <= Len(run.tool_calls)
      /\ \A j \in 1..Len(CallOps) :
           /\ CallOps[j].id = run.tool_calls[j].id
           /\ j <= Len(BatchOutputs)
           /\ ~CallOps[j].result.ok
              => IsErrorPayload(BatchOutputs[j].output, CallOps[j].result.msg)
      /\ outcome.kind = "raised" => fault.op = "submit"
      /\ (pc \in {"sleep", "fetch"} \/ fault.op = "submit")
         => /\ Len(CallOps) = Len(run.tool_calls)
            /\ Len(SubmitOps) = 1
            /\ Len(SubmitOps[1].tool_outputs) = Len(run.tool_calls)

\* A batch of three whose second call failed, submitted with three outputs.
C1_Witness ==
    /\ HandlerReturned
    /\ Len(run.tool_calls) = 3
    /\ Len(CallOps) = 3
    /\ CallOps[1].result.ok /\ ~CallOps[2].result.ok /\ CallOps[3].result.ok
    /\ Len(SubmitOps) = 1
    /\ Len(SubmitOps[1].tool_outputs) = 3
    /\ IsErrorPayload(SubmitOps[1].tool_outputs[2].output,
                      "MCP server HTTP error: 500")

\* C2: when the loop stands before its next status fetch and the last fetch
\* observed requires_action, exactly one submit_tool_outputs call was made
\* since that fetch, and the call ids of the submitted batch are those of
\* the pending batch, in the same order (the empty batch included).
C2_CallIdCorrespondence ==
    HandlerReturned =>
      /\ Len(SubmitOps) = 1
      /\ OutputIds(SubmitOps[1].tool_outputs) = CallIds(run.tool_calls)

\* A second tool-call round of two calls, the second-numbered call first,
\* submitted.
C2_Witness ==
    /\ HandlerReturned
    /\ pc = "fetch"
    /\ polls >= 2
    /\ CallIds(run.tool_calls) = <<"call_2", "call_1">>
    /\ OutputIds(SubmitOps[1].tool_outputs) = <<"call_2", "call_1">>
    /\ ~CallOps[1].result.ok

\* C5: once a status fetch or the submission raised, run_agent has raised
\* to its caller, returns no result, and makes no remote call after the one
\* that raised.
C5_RunLevelFailurePropagates ==
    fault.op \in {"get", "submit"} =>
      /\ pc = "done"
      /\ outcome.kind = "raised"
      /\ polls = fault.polls
      /\ Len(ops) = fault.nops

\* The submission of a second round raised.
C5_Witness ==
    /\ fault.op = "submit"
    /\ polls >= 2
    /\ outcome.kind = "raised"
    /\ Len(CallOps) >= 1

\* The only remote call since the last status fetch is messages.list.
OnlyListedMessages == Len(ops) = 1 /\ ops[1].op = "list_messages"

\* The messages returned are those messages.list gave, in its order, each
\* with its id, role and content.
ReturnsListedMessages ==
    LET messages == DictItem(outcome.value, "messages")
        listing == ops[1].listing
    IN /\ IsList(messages)
       /\ listing.ok =>
            /\ Len(messages.items) = Len(listing.history)
            /\ \A j \in 1..Len(listing.history) :
                 /\ DictItem(messages.items[j], "id") = JStr(listing.history[j].id)
                 /\ DictItem(messages.items[j], "role") = JStr(listing.history[j].role)
                 /\ DictItem(messages.items[j], "content")
                      = JStr(listing.history[j].content)

\* C6: when a status fetch observes cancelled or expired, run_agent does
\* not raise, makes no tool call and no submission after it (only the
\* message listing), and returns a result whose status is the one observed.
C6_TerminalNotExceptional ==
    run.status \in {"cancelled", "expired"} =>
      /\ outcome.kind # "raised"
      /\ pc \in {"get_messages", "done"}
      /\ IF pc = "done" THEN OnlyListedMessages ELSE ops = <<>>
      /\ pc = "done"
         => /\ outcome.kind = "returned"
            /\ DictGet(outcome.value, "status", JNull) = JStr(run.status)

\* The third status fetch observed cancelled and run_agent returned it.
C6_Witness ==
    /\ run.status = "cancelled"
    /\ polls = 3
    /\ pc = "done"
    /\ outcome.kind = "returned"
    /\ DictGet(outcome.value, "status", JNull) = JStr("cancelled")

\* C7: when a status fetch observes failed, run_agent is through on that
\* iteration: it has returned status failed with the run's last error, and
\* made no remote call after the fetch.
C7_FailedExitsWithError ==
    run.status = "failed" =>
      /\ pc = "done"
      /\ ops = <<>>
      /\ outcome.kind = "returned"
      /\ DictGet(outcome.value, "status", JNull) = JStr("failed")
      /\ DictGet(outcome.value, "error", JNull) = run.last_error

\* A later status fetch observed failed with a rate-limit error.
C7_Witness ==
    /\ run.status = "failed"
    /\ polls >= 2
    /\ pc = "done"
    /\ DictGet(outcome.value, "error", JNull)
         = JDict(<<"code">>, <<JStr("rate_limit_exceeded")>>)

\* C8: when a status fetch observes completed, run_agent makes no further
\* status fetch, tool call or submission, lists the thread's messages, and
\* returns a result with status completed, the messages and the id of the
\* run it created.
C8_CompletedReturnsResult ==
    run.status = "completed" =>
      /\ pc \in {"get_messages", "done"}
      /\ pc = "get_messages" => ops = <<>> /\ outcome.kind = "none"
      /\ pc = "done"
         => /\ OnlyListedMessages
            /\ outcome.kind = "returned"
            /\ outcome.value.keys = <<"status", "messages", "run_id">>
            /\ DictItem(outcome.value, "status") = JStr("completed")
            /\ DictItem(outcome.value, "run_id") = JStr(RunId)
            /\ ReturnsListedMessages

\* A run completed after a tool-call round, returned with two messages.
C8_Witness ==
    /\ run.status = "completed"
    /\ polls >= 2
    /\ last_tool_outputs # <<>>
    /\ pc = "done"
    /\ outcome.kind = "returned"
    /\ Len(DictItem(outcome.value, "messages").items) = 2

\* The raw arguments are not valid JSON.
Malformed(raw) == ~JsonLoads(raw).ok

\* C9: a pending call whose raw arguments are not valid JSON is dispatched
\* with an empty argument mapping; no parse error is raised, and the rest
\* of the batch is processed.
C9_MalformedArgumentsDefault ==
    run.status = "requires_action" =>
      /\ \A j \in 1..Len(CallOps) :
           Malformed(run.tool_calls[j].arguments)
           => CallOps[j].arguments = JDict(<<>>, <<>>)
      /\ outcome.kind = "raised" => fault.op = "submit"
      /\ (pc \in {"sleep", "fetch"} \/ fault.op = "submit")
         => Len(CallOps) = Len(run.tool_calls)

\* The call with arguments "{invalid" was dispatched with {} and the call
\* after it was dispatched too.
C9_Witness ==
    /\ run.status = "requires_action"
    /\ Len(CallOps) >= 2
    /\ run.tool_calls[1].arguments = <<Punct("{"), Word("invalid")>>
    /\ CallOps[1].arguments = JDict(<<>>, <<>>)
    /\ CallOps[2].id = run.tool_calls[2].id

\* C10 as stated: one output per dispatched call, and every output decodes
\* as JSON, whatever the JSON type of the result.
C10_EveryOutputIsJson ==
    run.status = "requires_action" =>
      /\ Len(BatchOutputs) = Len(CallOps)
      /\ \A j \in 1..Len(BatchOutputs) : JsonLoads(BatchOutputs[j].output).ok
\* ------------------------------------------------------ C11..C15: requests
\* The response has a 2xx status.
Is2xx(response) ==
    response.kind = "http" /\ 200 <= response.status /\ response.status <= 299

\* The data lines of a body as the client reads it: the lines that, once
\* stripped, start with "data: ".
ReadDataLines(body) == SelectSeq(body, LAMBDA l : StripLine(l).prefix = "data: ")

\* The response is 2xx and the first data line read is JSON; that JSON.
HasEnvelope(response) ==
    /\ Is2xx(response)
    /\ ReadDataLines(response.body) # <<>>
    /\ JsonLoads(ReadDataLines(response.body)[1].text).ok
EnvelopeOf(response) == JsonLoads(ReadDataLines(response.body)[1].text).v

\* The response carries an envelope (a JSON object) with an error key.
HasErrorKey(response) ==
    /\ HasEnvelope(response)
    /\ IsDict(EnvelopeOf(response))
    /\ HasKey(EnvelopeOf(response), "error")

\* C11. Whenever the parsed envelope has an error key, with or without a
\* result key beside it and whatever the error value, the request fails
\* with an error whose message carries that error value, and returns
\* nothing.
C11_RemoteErrorSurfaced ==
    \A j \in 1..Len(rpc) :
       HasErrorKey(rpc[j].response) =>
         /\ ~rpc[j].outcome.ok
         /\ rpc[j].outcome.v = JNull
         /\ rpc[j].outcome.msg =
              "MCP server error: "
              \o RenderText(PyStr(DictItem(EnvelopeOf(rpc[j].response), "error")))

\* A request met an envelope with a result and a null error, and failed;
\* another met the error object of the example.
C11_Witness ==
    /\ \E j \in 1..Len(rpc) :
         /\ rpc[j].op = "_send_mcp_request"
         /\ rpc[j].response = Framed(200, <<DataLine(ErrorAndResult(JNull, OkTrue))>>)
         /\ rpc[j].outcome = Raised("MCP server error: None")
    /\ \E j \in 1..Len(rpc) :
         /\ rpc[j].response = Framed(200, <<DataLine(RpcError)>>)
         /\ rpc[j].outcome =
              Raised("MCP server error: {'code':-32601,'message':'not found'}")

\* The lines of a body that start with "data: " as they stand.
LiteralDataLines(body) == SelectSeq(body, LAMBDA l : l.prefix = "data: ")

\* The call failed on the framing of the body and returned nothing.
ProtocolError(result) ==
    ~result.ok /\ result.v = JNull /\ result.msg \in {NoDataFound, InvalidJson}

\* C12, as stated. On a 2xx response only the first line of the body that
\* starts with "data: " counts: if the body has no such line, or the text
\* after the prefix on that line is no JSON (a later data line being valid
\* or not), the request fails with a protocol error.
C12_FirstDataLineDecides ==
    \A j \in 1..Len(rpc) :
       LET lines == LiteralDataLines(rpc[j].response.body) IN
       (Is2xx(rpc[j].response) /\ (lines = <<>> \/ ~JsonLoads(lines[1].text).ok))
         => ProtocolError(rpc[j].outcome)

\* C12, amended. On a 2xx response the lines are stripped of surrounding
\* whitespace first, and only the first stripped line that starts with
\* "data: " counts, so that a data line with no text is passed over and an
\* indented one is read: if there is no such line the request fails with
\* "No data found", if the text of the first is no JSON (a later data line
\* being valid or not) it fails with "Invalid JSON", and when it is JSON
\* the request does not fail on the framing.
C12_FramingErrorsFatal ==
    \A j \in 1..Len(rpc) :
       LET lines == ReadDataLines(rpc[j].response.body) IN
       Is2xx(rpc[j].response) =>
         /\ lines = <<>> => rpc[j].outcome = Raised(NoDataFound)
         /\ (lines # <<>> /\ ~JsonLoads(lines[1].text).ok)
              => rpc[j].outcome = Raised(InvalidJson)
         /\ (lines # <<>> /\ JsonLoads(lines[1].text).ok)
              => ~ProtocolError(rpc[j].outcome)

\* A request whose first data line was no JSON and whose second was failed;
\* another whose first data line had no text returned the second's result.
C12_Witness ==
    /\ \E j \in 1..Len(rpc) :
         /\ rpc[j].response = Framed(200, <<BadDataLine, DataLine(Envelope(OkTrue))>>)
         /\ rpc[j].outcome = Raised(InvalidJson)
    /\ \E j \in 1..Len(rpc) :
         /\ rpc[j].response = Framed(200, <<BlankDataLine, DataLine(Envelope(OkTrue))>>)
         /\ rpc[j].outcome = Returned(OkTrue)

\* The response carries an envelope (a JSON object) without an error key.
HasPlainEnvelope(response) ==
    /\ HasEnvelope(response)
    /\ IsDict(EnvelopeOf(response))
    /\ ~HasKey(EnvelopeOf(response), "error")

\* C13. For every 2xx response whose first data line parses to an envelope
\* without an error key, the request returns the envelope's result when
\* the result key is present (whatever its value) and the whole envelope
\* when it is absent.
C13_ResultOrEnvelope ==
    \A j \in 1..Len(rpc) :
       LET response == rpc[j].response IN
       HasPlainEnvelope(response) =>
         rpc[j].outcome =
           Returned(IF HasKey(EnvelopeOf(response), "result")
                    THEN DictItem(EnvelopeOf(response), "result")
                    ELSE EnvelopeOf(response))

\* The body of the example gave {ok: true}, and an envelope without the
\* wrapper was returned whole.
C13_Witness ==
    /\ \E j \in 1..Len(rpc) :
         /\ rpc[j].op = "_send_mcp_request"
         /\ rpc[j].response =
              HttpResponse(200, <<SseLine("event: ", <<Word("message")>>),
                                  SseLine("data: ", JsonDumps(Envelope(OkTrue)))>>)
         /\ rpc[j].outcome = Returned(OkTrue)
    /\ \E j \in 1..Len(rpc) :
         /\ rpc[j].response = Framed(200, <<DataLine(JDict(<<"tools">>, <<Catalog>>))>>)
         /\ rpc[j].outcome = Returned(JDict(<<"tools">>, <<Catalog>>))

\* C14. On every status outside 2xx the request fails with the error that
\* carries the status code, whatever the body holds: a body that would
\* parse to a result, or to a JSON-RPC error, is not read.
C14_StatusErrorCarriesCode ==
    \A j \in 1..Len(rpc) :
       LET response == rpc[j].response IN
       (response.kind = "http" /\ ~Is2xx(response)) =>
         rpc[j].outcome =
           Raised("MCP server HTTP error: " \o ToString(response.status))

\* A 500 whose body held a result, and a 301 whose body held a JSON-RPC
\* error, both failed with the status error.
C14_Witness ==
    /\ \E j \in 1..Len(rpc) :
         /\ rpc[j].response = HttpResponse(500, <<DataLine(Envelope(OkTrue))>>)
         /\ rpc[j].outcome = Raised("MCP server HTTP error: 500")
    /\ \E j \in 1..Len(rpc) :
         /\ rpc[j].response = HttpResponse(301, <<DataLine(RpcError)>>)
         /\ rpc[j].outcome = Raised("MCP server HTTP error: 301")

\* C15. Every call_tool makes exactly one POST, of method tools/call,
\* whatever comes of it, a call that follows an equal call included; it
\* fails exactly when the request of that POST fails, with the failure of
\* the request, and returns what the request returns otherwise.
C15_OnePostPerCall ==
    \A j \in 1..Len(rpc) :
       rpc[j].op = "call_tool" =>
         /\ rpc[j].after = rpc[j].before + 1
         /\ posts[rpc[j].after].method = "tools/call"
         /\ rpc[j].outcome.ok = _send_mcp_request(rpc[j].response).ok
         /\ rpc[j].outcome = _send_mcp_request(rpc[j].response)

\* A tool call failed on the transport after one POST, and the next tool
\* call posted again and returned the result.
C15_Witness ==
    /\ Len(rpc) = 2 /\ Len(posts) = 2
    /\ rpc[1].op = "call_tool" /\ rpc[2].op = "call_tool"
    /\ posts[1].method = "tools/call" /\ posts[2].method = "tools/call"
    /\ rpc[1].outcome = Raised("ConnectError")
    /\ rpc[2].outcome = Returned(JList(<<JStr("hit")>>))

\* ---------------------------------------------------- C16..C18: the toolset
\* initialize got as far as discovery; what discovery returned to
\* _setup_mcp_tools.
Discovered == init_outcome # NoOutcome /\ Len(calls) >= 1
DiscoveredTools == calls[1].ret

\* A sequence of descriptors: JSON objects whose name, if any, is a str.
IsDescriptorSeq(v) ==
    /\ IsList(v)
    /\ \A j \in 1..Len(v.items) :
         /\ IsDict(v.items[j])
         /\ HasKey(v.items[j], "name") => v.items[j].vals[
               CHOOSE k \in 1..Len(v.items[j].keys) : v.items[j].keys[k] = "name"].t = "str"

\* The descriptors of seq that are not named esql, in the order of seq.
NotEsql(seq) ==
    SelectSeq(seq, LAMBDA d : ~(HasKey(d, "name") /\ DictItem(d, "name") = JStr("esql")))

\* The function part of an entry of the toolset.
FunctionOf(entry) == DictItem(entry, "function")

\* C16. For every descriptor sequence discovery returns, the toolset holds
\* one tool for each descriptor whose name is not esql and none for the
\* others, in the order of discovery: the j-th tool carries the name and
\* the description of the j-th descriptor kept.
C16_ExclusionFilter ==
    (Discovered /\ IsDescriptorSeq(DiscoveredTools)) =>
      LET kept == NotEsql(DiscoveredTools.items) IN
      /\ Len(mcp_tools.items) = Len(kept)
      /\ \A j \in 1..Len(kept) :
           /\ HasKey(kept[j], "name") =>
                DictItem(FunctionOf(mcp_tools.items[j]), "name") = DictItem(kept[j], "name")
           /\ HasKey(kept[j], "description") =>
                DictItem(FunctionOf(mcp_tools.items[j]), "description")
                  = DictItem(kept[j], "description")
      /\ \A j \in 1..Len(mcp_tools.items) :
           DictItem(FunctionOf(mcp_tools.items[j]), "name") # JStr("esql")

\* Discovery returned search, esql, get_mappings and the toolset is search,
\* get_mappings.
C16_Witness ==
    /\ Discovered
    /\ IsDescriptorSeq(DiscoveredTools)
    /\ Len(DiscoveredTools.items) = 3
    /\ [j \in 1..3 |-> DictGet(DiscoveredTools.items[j], "name", JNull)]
         = <<JStr("search"), JStr("esql"), JStr("get_mappings")>>
    /\ [j \in 1..Len(mcp_tools.items) |->
          DictItem(FunctionOf(mcp_tools.items[j]), "name")]
         = <<JStr("search"), JStr("get_mappings")>>

\* The entry the toolset is to hold for a descriptor: the three fields, a
\* missing one replaced by its default.
EntryFor(d) ==
    JDict(<<"type", "function">>,
          <<JStr("function"),
            JDict(<<"name", "description", "parameters">>,
                  <<IF HasKey(d, "name") THEN DictItem(d, "name") ELSE JStr("unknown_tool"),
                    IF HasKey(d, "description") THEN DictItem(d, "description") ELSE JStr(""),
                    IF HasKey(d, "inputSchema") THEN DictItem(d, "inputSchema")
                    ELSE JDict(<<"type", "properties", "required">>,
                               <<JStr("object"), JDict(<<>>, <<>>), JList(<<>>)>>)>>)>>)

\* C17. For every sequence of descriptors discovery returns, descriptors
\* without name, description or parameter schema included, building the
\* toolset does not fail (initialize completes) and the toolset holds, for
\* each descriptor kept, the entry {type: function, function: {name,
\* description, parameters}} in which a missing parameter schema is
\* {type: object, properties: {}, required: []}.
C17_ToolsetTotal ==
    (Discovered /\ IsDescriptorSeq(DiscoveredTools)) =>
      LET kept == NotEsql(DiscoveredTools.items) IN
      /\ init_outcome = ReturnedOutcome(JNull)
      /\ mcp_tools = JList([j \in 1..Len(kept) |-> EntryFor(kept[j])])

\* Discovery returned a descriptor without any field among others, and the
\* toolset holds the entry of defaults for it.
C17_Witness ==
    /\ Discovered
    /\ IsDescriptorSeq(DiscoveredTools)
    /\ Len(DiscoveredTools.items) = 3
    /\ DiscoveredTools.items[2] = JDict(<<>>, <<>>)
    /\ DiscoveredTools.items[3] = JDict(<<"description">>, <<JStr("d")>>)
    /\ init_outcome = ReturnedOutcome(JNull)
    /\ \E j \in 1..Len(mcp_tools.items) :
         mcp_tools.items[j] =
           JDict(<<"type", "function">>,
                 <<JStr("function"),
                   JDict(<<"name", "description", "parameters">>,
                         <<JStr("unknown_tool"), JStr(""), DefaultParameters>>)>>)

\* C18. If every tools/list request made during initialize fails (the one
\* of _setup_mcp_tools and the one of _test_mcp_connection that follows,
\* the failed one having cached nothing), initialize completes without
\* raising and the toolset is empty.
C18_DiscoveryFailureTolerated ==
    (Discovered /\ \A j \in 1..Len(calls) : RequestFailed(calls[j])) =>
      /\ init_outcome = ReturnedOutcome(JNull)
      /\ mcp_tools = JList(<<>>)
      /\ Len(calls) = 2

\* initialize met a transport failure and then a 500, and completed with
\* no tool.
C18_Witness ==
    /\ Len(calls) = 2
    /\ calls[1].response = TransportFailure("ConnectError")
    /\ calls[2].response = HttpResponse(500, <<>>)
    /\ Len(posts) = 2
    /\ init_outcome = ReturnedOutcome(JNull)
    /\ mcp_tools = JList(<<>>)

\* ------------------------------------------------- C19, C20: credentials
\* The host of the endpoint is in the tunnel domain: its registered domain,
\* in any case of letters, is devtunnels.ms.
HostInTunnelDomain(url) == Lower(url.host[Len(url.host)]) = "devtunnels.ms"

\* The POST carries the tunnel authorization header.
HasTunnelHeader(post) == HasKey(post.headers, TunnelHeader)

\* C19. When the host of the endpoint is not in the tunnel domain, no POST
\* of the client carries an X-Tunnel-Authorization header, and for none
\* is the static token read or the identity provider asked for a token.
C19_NoCredentialOffTunnel ==
    ~HostInTunnelDomain(base_url) =>
      \A j \in 1..Len(posts) :
         /\ ~HasTunnelHeader(posts[j])
         /\ ~posts[j].getenv
         /\ ~posts[j].get_token

\* A static access token is configured: the variable is set and not empty.
StaticConfigured == env_token.t = "str" /\ env_token.s # ""

\* C20. For an endpoint in the tunnel domain: whenever a static token is
\* configured every POST carries "tunnel <static token>" and get_token is
\* not called for it; get_token is called only when no static token is
\* configured, and the token it returns is carried in the same form.
C20_StaticTokenPreferred ==
    HostInTunnelDomain(base_url) =>
      \A j \in 1..Len(posts) :
         /\ StaticConfigured =>
              /\ HasTunnelHeader(posts[j])
              /\ DictItem(posts[j].headers, TunnelHeader) = JStr("tunnel " \o env_token.s)
              /\ ~posts[j].get_token
         /\ posts[j].get_token => ~StaticConfigured
         /\ (~StaticConfigured /\ _azure_credential = Credential(JStr("pt"))) =>
              /\ posts[j].get_token
              /\ HasTunnelHeader(posts[j])
              /\ DictItem(posts[j].headers, TunnelHeader) = JStr("tunnel pt")

\* A client of a tunnel endpoint that holds a working credential, in an
\* environment with a static token, posted twice with the static token.
C20_Witness ==
    /\ HostInTunnelDomain(base_url)
    /\ env_token = JStr("st")
    /\ _azure_credential = Credential(JStr("pt"))
    /\ Len(posts) = 2
    /\ \A j \in 1..2 :
         /\ DictItem(posts[j].headers, TunnelHeader) = JStr("tunnel st")
         /\ ~posts[j].get_token

\* ------------------------------------- C21: credential acquisition failure
\* No identity provider could be constructed, or its get_token raises.
ProviderFails ==
    \/ _azure_credential = JNull
    \/ _azure_credential = Credential(JNull)

\* What the call logged in entry gave is what the response to its POST
\* decides.
DecidedByResponse(entry) ==
    entry.outcome = IF entry.op = "call_tool" THEN call_tool(entry.response)
                    ELSE _send_mcp_request(entry.response)

\* C21. For an endpoint in the tunnel domain with no static token, when no
\* identity provider could be constructed or its get_token raises, every
\* request is still sent, exactly once, without the X-Tunnel-Authorization
\* header and with the Accept, Content-Type, X-Session-ID and Cache-Control
\* headers, and its outcome is the one the server's response decides.
C21_CredentialFailureNonFatal ==
    (HostInTunnelDomain(base_url) /\ ~StaticConfigured /\ ProviderFails) =>
      /\ Len(posts) = Len(rpc)
      /\ \A n \in 1..Len(rpc) :
           /\ rpc[n].before = n - 1
           /\ rpc[n].after = n
           /\ posts[n].headers = BaseHeaders
           /\ \A name \in {"Accept", "Content-Type", "X-Session-ID", "Cache-Control"} :
                HasKey(posts[n].headers, name)
           /\ ~HasTunnelHeader(posts[n])
           /\ DecidedByResponse(rpc[n])

\* A client of a tunnel endpoint whose credential fails in get_token, in
\* an environment without static token: a request that the server refused
\* with 401 and a tool call that the server answered, both without the
\* tunnel header.
C21_Witness ==
    /\ HostInTunnelDomain(base_url)
    /\ env_token = JNull
    /\ _azure_credential = Credential(JNull)
    /\ Len(rpc) = 2
    /\ rpc[1].op = "_send_mcp_request"
    /\ rpc[1].response = HttpResponse(401, <<>>)
    /\ ~rpc[1].outcome.ok
    /\ rpc[2].op = "call_tool"
    /\ rpc[2].outcome.ok
    /\ \A j \in 1..2 : posts[j].get_token /\ ~HasTunnelHeader(posts[j])

\* ------------------------------------------------ C22: sequential dispatch
\* C22. Within one run_agent execution at most one remote operation
\* (status fetch, tool call, output submission) is outstanding at any
\* moment; a tool call outstanding is the call after those that have
\* returned or failed, each of which has left its output; a submission
\* outstanding is begun after every call of the batch has finished.
C22_SequentialDispatch ==
    /\ Len(inflight) <= 1
    /\ \A j \in 1..Len(inflight) :
         /\ inflight[j].op = "call_tool" =>
              /\ run.status = "requires_action"
              /\ Len(CallOps) = Len(tool_outputs)
              /\ Len(tool_outputs) < Len(run.tool_calls)
              /\ inflight[j].id = run.tool_calls[Len(tool_outputs) + 1].id
         /\ inflight[j].op = "submit_tool_outputs" =>
              /\ run.status = "requires_action"
              /\ Len(CallOps) = Len(run.tool_calls)
              /\ Len(tool_outputs) = Len(run.tool_calls)

\* The second call of a batch of two is outstanding, the first has failed
\* and left its output.
C22_Witness ==
    /\ pc = "calling"
    /\ Len(run.tool_calls) = 2
    /\ Len(inflight) = 1
    /\ inflight[1].op = "call_tool"
    /\ inflight[1].id = run.tool_calls[2].id
    /\ Len(CallOps) = 1
    /\ ~CallOps[1].result.ok
    /\ Len(tool_outputs) = 1

\* ---------------------------------------------------- C23: termination
\* The last status fetch observed a status on which the loop only waits.
Waiting == run.status \in {"queued", "in_progress"}

\* C23. Every remote call returning and the status of the run becoming at
\* last completed, failed, cancelled or expired and staying so, run_agent
\* once entered on an agent and thread returns, unless a remote call of its
\* own raised; and as long as the status last fetched is queued or
\* in_progress it makes no other remote call, waits one polling interval
\* and fetches the status again.
C23_PollingTerminates ==
    /\ (pc = "start" /\ agent_ready)
          ~> (outcome.kind = "returned" \/ fault.op # "none")
    /\ [](Waiting =>
            \/ pc = "sleep" /\ ops = <<>>
            \/ pc \in {"fetch", "fetching"} /\ ops = <<[op |-> "sleep"]>>
            \/ pc = "done" /\ fault.op = "get")
    /\ (Waiting /\ pc = "sleep") ~> (pc = "fetching")

\* The run ended in completed at the service; run_agent, after fetches that
\* saw it going on and no batch, has returned completed.
C23_Witness ==
    /\ service = "completed"
    /\ polls >= 2
    /\ last_tool_outputs = <<>>
    /\ pc = "done"
    /\ outcome.kind = "returned"
    /\ DictGet(outcome.value, "status", JNull) = JStr("completed")

\* ------------------------------------------- C24: concurrent first-populate
\* Callers i and j, both through, overlapped: each began before the other
\* ended.
Overlapped(i, j) ==
    /\ callers[i].pc = "done" /\ callers[j].pc = "done"
    /\ callers[i].begun < callers[j].ended
    /\ callers[j].begun < callers[i].ended

\* The catalog a result carries: its tools, or the result itself.
ServedCatalog(result) ==
    IF IsDict(result) /\ HasKey(result, "tools") THEN DictItem(result, "tools")
    ELSE result

\* The caller was given the catalog the server returned to it.
ReceivedCatalog(caller) ==
    /\ RequestSucceeded(caller)
    /\ AcceptedShape(_send_mcp_request(caller.response).v)
    /\ caller.ret = ServedCatalog(_send_mcp_request(caller.response).v)

\* Those of the first two callers whose request returned a result.
Responders == {i \in 1..2 : RequestSucceeded(callers[i])}

LastResponder == CHOOSE i \in Responders :
                    \A k \in Responders : callers[k].ended <= callers[i].ended

\* C24. When the first two callers of get_available_tools overlap on a
\* client whose cache is unpopulated, then in every interleaving each of
\* them receives a catalog the server returned or an empty sequence; the
\* cache afterwards holds the catalog of the last of them whose request
\* succeeded; and when one of them succeeded, a call begun after both are
\* through makes no request.
C24_FirstPopulateRace ==
    (Len(callers) >= 2 /\ Overlapped(1, 2)) =>
      /\ \A i \in 1..2 :
           callers[i].ret = JList(<<>>) \/ ReceivedCatalog(callers[i])
      /\ (Responders # {} /\ Len(callers) = 2) =>
           _tools_cache
             = ServedCatalog(_send_mcp_request(callers[LastResponder].response).v)
      /\ (/\ Responders # {}
          /\ Len(callers) >= 3
          /\ callers[3].begun > callers[1].ended
          /\ callers[3].begun > callers[2].ended)
         => callers[3].requests = 0

\* ------------------------------------------------ C25: last_tool_outputs
\* The handler of the batch last observed has stored its outputs.
BatchStored ==
    run.status = "requires_action" /\ (pc = "submitting" \/ SubmitOps # <<>>)

\* C25. Over any sequence of runs: once the handler of a requires_action
\* batch has stored its outputs, last_tool_outputs holds one entry per
\* pending call of that batch, in batch order, with the call's tool name,
\* its raw arguments and the output that the submitted batch carries for
\* that call id, and nothing of earlier batches; and it changes in no other
\* step, so it keeps that batch through every later status fetch and into
\* the next run until another batch is handled.
C25_LastToolOutputsRecord ==
    /\ [](BatchStored =>
            /\ Len(last_tool_outputs) = Len(run.tool_calls)
            /\ Len(BatchOutputs) = Len(run.tool_calls)
            /\ \A j \in 1..Len(run.tool_calls) :
                 /\ BatchOutputs[j].tool_call_id = run.tool_calls[j].id
                 /\ last_tool_outputs[j] =
                      [tool_name |-> run.tool_calls[j].name,
                       arguments |-> run.tool_calls[j].arguments,
                       output |-> BatchOutputs[j].output])
    /\ [][last_tool_outputs' # last_tool_outputs
            => pc = "submit" /\ run.status = "requires_action"]_vars

\* In a second run, a batch of two and then a batch of one were handled
\* and the run completed: the record holds the one entry of the later batch.
C25_Witness ==
    /\ runs = 1
    /\ run.status = "completed"
    /\ pc = "done"
    /\ tally.submitted = {"call_1", "call_2"}
    /\ tally.resubmitted = {"call_1"}
    /\ Len(last_tool_outputs) = 1
    /\ last_tool_outputs[1].tool_name = "search"

\* ------------------------------------------------ C26: the cache's states
\* The cache holds what the request of logged call n returned: the tools of
\* its result, the result itself, or the empty list for a mapping without
\* tools.
AssignedBy(n) ==
    /\ RequestSucceeded(calls[n])
    /\ _tools_cache \in {ServedCatalog(_send_mcp_request(calls[n].response).v),
                         JList(<<>>)}

C27_AtMostOnceDispatch ==
    /\ tally.redispatched = {}
    /\ tally.resubmitted = {}

\* ------------------------------------- C28: what run_agent returns on
\* The status last fetched is one on which the loop neither returns nor
\* handles tool calls.
PolledOn == run.status \in Statuses \ (TerminalStatuses \cup {"requires_action"})

\* C28. run_agent has returned a result only when the status last fetched
\* is completed, failed, cancelled or expired, and the result carries that
\* status; after a fetch of any other status (queued, in_progress, a value
\* outside RunState) it has not returned: it stands at the polling wait,
\* or past that one wait at the next status fetch, or that fetch raised;
\* and the wait is followed by the fetch.
C28_ReturnOnlyOnTerminal ==
    /\ [](outcome.kind = "returned" =>
            /\ run.status \in TerminalStatuses
            /\ DictGet(outcome.value, "status", JNull) = JStr(run.status))
    /\ [](PolledOn =>
            /\ outcome.kind # "returned"
            /\ \/ pc = "sleep" /\ ops = <<>>
               \/ pc \in {"fetch", "fetching"} /\ ops = <<[op |-> "sleep"]>>
               \/ pc = "done" /\ fault.op = "get")
    /\ [][pc = "sleep" /\ pc' # pc => pc' = "fetch"]_vars
    /\ [][pc = "fetch" /\ pc' # pc =>
            /\ pc' = "fetching"
            /\ Len(inflight') = 1
            /\ inflight'[1].op = "get_run"]_vars

\* A fetch reported a status outside RunState; the loop waited once and
\* is fetching the status again.
C28_Witness ==
    /\ run.status = "cancelling"
    /\ polls >= 2
    /\ pc = "fetching"
    /\ ops = <<[op |-> "sleep"]>>
    /\ outcome = NoOutcome

\* -------------------------------------- C29: the arguments of a dispatch
\* C29. Every call the loop has passed to call_tool was passed a mapping
\* as its arguments, whatever the raw arguments of the pending call were.
C29_ArgumentsAreMapping ==
    \A j \in 1..Len(CallOps) : IsDict(CallOps[j].arguments)

\* --------------------------------- C30: a failure of the message history
\* run_agent is through and its last operation was a messages.list call
\* that raised.
ListingFailed ==
    /\ pc = "done"
    /\ Len(ops) >= 1
    /\ ops[Len(ops)].op = "list_messages"
    /\ ~ops[Len(ops)].listing.ok

\* C30. When messages.list raises after the run was fetched as completed,
\* cancelled or expired, run_agent has not raised: it has returned the
\* status fetched and an empty list of messages.
C30_HistoryFailureSwallowed ==
    ListingFailed =>
      /\ run.status \in {"completed", "cancelled", "expired"}
      /\ outcome.kind = "returned"
      /\ DictGet(outcome.value, "status", JNull) = JStr(run.status)
      /\ DictGet(outcome.value, "messages", JNull) = JList(<<>>)

\* The run was fetched as completed after a batch was handled, the history
\* could not be listed, and run_agent returned completed with no messages.
C30_Witness ==
    /\ ListingFailed
    /\ run.status = "completed"
    /\ last_tool_outputs # <<>>
    /\ outcome.kind = "returned"
    /\ DictGet(outcome.value, "messages", JNull) = JList(<<>>)
    /\ DictGet(outcome.value, "run_id", JNull) = JStr(RunId)

====
